---- MODULE Spec2Model ----
(***************************************************************************)
(* Model of the real-time core of crypto-snipper:                          *)
(*   - Scalper          (services/scalper.ts, src/unnamed/part_001)        *)
(*   - RealtimeFetcher  (src/src/services/realtime-fetcher.ts)             *)
(*   - PositionTracker  (src/src/services/position-tracker.ts)             *)
(*                                                                         *)
(* Units.  Prices are integers.  Percentages of the configuration are kept *)
(* in basis points (0.3% = 30), scores in hundredths (0.6 = 60), times in  *)
(* milliseconds.  A take-profit or stop-loss price is kept multiplied by   *)
(* 10000 so that price * (1 + bps/10000) is exact; for the prices of the   *)
(* model the IEEE-754 results of the code compare with integer prices as   *)
(* the exact values do.  Break probabilities are in thousandths (0.3 =     *)
(* 300); their subtractions are the IEEE-754 ones (see FloatSub).          *)
(***************************************************************************)
EXTENDS Integers, Sequences, FiniteSets, TLC

(***************************************************************************)
(* Bounds of the model                                                     *)
(***************************************************************************)
MaxTicks == 1
TickMs == 30000
Epoch == 100000
MaxScalps == 2
MaxCalls == 2
MaxSockets == 2
MaxMessageId == 5
MaxTasks == 2
MaxListeners == 2
MaxOrders == 2
MaxTrackerMessageId == 7
MaxTrades == 103
MaxStreamTrades == 2

Symbols == {"BTC/IDR", "ETH/IDR"}
ScalpSymbols == {"BTC/IDR"}
Prices == {99850, 100000, 100300}
Scores == {50, 60, 110}

VARIABLES
    \* ---- Scalper ----
    now,              \* Date.now()
    config,           \* Scalper.config
    lastSignalTime,   \* Scalper.lastSignalTime : symbol -> ms (0 = absent)
    activeScalps,     \* Scalper.activeScalps   : symbol -> scalp object (0 = absent)
    scalps,           \* the ActiveScalp objects allocated so far, by identity
    tradeHistory,     \* Scalper.tradeHistory   : sequence of scalp objects
    analyzing,        \* analyze() calls suspended at the order-book await (a bag)
    sEmitted,         \* events emitted by the Scalper in the last step
    \* ---- RealtimeFetcher ----
    ws,               \* RealtimeFetcher.ws : a socket, 0 = null
    socks,            \* the WebSocket objects created by connect(), with the
                      \* promise, the auth timer and the origin of that connect()
    sent,             \* per socket, the messages written to it
    isConnected,      \* RealtimeFetcher.isConnected
    messageId,        \* RealtimeFetcher.messageId
    subscribedSymbols,\* RealtimeFetcher.subscribedSymbols (insertion ordered)
    reconnectTimeout, \* RealtimeFetcher.reconnectTimeout : "null" or "set"
    timers,           \* pending reconnect timers
    crashed,          \* the process died of an uncaught exception
    stopped,          \* history: disconnect() called, connect() not called since
    tracked,          \* history: symbols subscribed and not unsubscribed since
    fSent,            \* messages the fetcher wrote in the last step
    fEmitted,         \* events the fetcher emitted in the last step
    \* ---- PositionTracker ----
    isRunning,        \* PositionTracker.isRunning
    checkInterval,    \* PositionTracker.checkInterval is set (the 5s timer)
    listeners,        \* handlePriceUpdate functions registered for 'price'
                      \* on the RealtimeFetcher
    ptSubscribedSymbols, \* PositionTracker.subscribedSymbols
    lastPrices,       \* PositionTracker.lastPrices : symbol -> price (0 = absent)
    positions,        \* the positions table of the order repository
    hasCredentials,   \* the account of the positions has stored credentials
    tasks,            \* handlePriceUpdate / checkAllPositions calls suspended
                      \* in a REST call (ticker fetch or exit order)
    exitOrders,       \* history: exit orders placed on the exchange, by position
    streamed,         \* history: symbols a streamed price was handled for
                      \* since the last sweep began
    tCalled,          \* positions closePosition() was called for in the last step
    tEmitted,         \* events the tracker emitted in the last step
    \* ---- RealtimeFetcher: market data ----
    priceCache,       \* RealtimeFetcher.priceCache : symbol -> cached price
    tradeBuffer,      \* RealtimeFetcher.tradeBuffer : symbol -> trades
                      \* (<<>> = no buffer)
    received,         \* history: trades handled per symbol since the last clear
    candles,          \* history: the candles forwarded to the price
                      \* repository per symbol since the last clear, each
                      \* with the trades it was made of
    \* --- OrderBookAnalyzer ---
    lastAnalysis      \* the analysis saved last (orderbook_snapshots), with its
                      \* row id and the order book it was made of

scalperVars == <<now, config, lastSignalTime, activeScalps, scalps,
                 tradeHistory, analyzing, sEmitted>>

fetcherVars == <<ws, socks, sent, isConnected, messageId, subscribedSymbols,
                 reconnectTimeout, timers, crashed, stopped, tracked, fSent,
                 fEmitted>>

trackerVars == <<isRunning, checkInterval, listeners, ptSubscribedSymbols,
                 lastPrices, positions, hasCredentials, tasks, exitOrders,
                 streamed, tCalled,
                 tEmitted>>

streamVars == <<priceCache, tradeBuffer, received, candles>>

analyzerVars == <<lastAnalysis>>

vars == <<scalperVars, fetcherVars, trackerVars, streamVars, analyzerVars>>

(***************************************************************************)
(* Scalper: configuration and pure helpers                                 *)
(***************************************************************************)
DEFAULT_CONFIG ==
    [ takeProfitPercent    |-> 30,     \* 0.3  %
      stopLossPercent      |-> 15,     \* 0.15 %
      minRiskReward        |-> 15,     \* 1.5, in tenths
      minConfidence        |-> 60,     \* 0.6
      cooldownMs           |-> 30000,
      enableWallExit       |-> TRUE,
      minProfitForWallExit |-> 10,     \* 0.1 %
      wallBreakThreshold   |-> 300 ]   \* 0.3, in thousandths

NoBook == [present |-> FALSE, asks |-> <<>>, bids |-> <<>>]

Level(p, v) == [price |-> p, volumeIdr |-> v]

\* Order books the realtime cache may hold when an exit is evaluated.
OrderBooks ==
    { NoBook,
      \* nothing between the price and either target
      [present |-> TRUE,
       asks |-> <<Level(100400, 50)>>,
       bids |-> <<Level(99600, 50)>>],
      \* five stacked asks just above 100000, thin bids; one bid just below
      \* 99850 that outweighs the asks
      [present |-> TRUE,
       asks |-> <<Level(100050, 10), Level(100060, 10), Level(100070, 10),
                  Level(100080, 5), Level(100090, 5)>>,
       bids |-> <<Level(99800, 10)>>],
      \* five stacked bids just below 99850, thin asks
      [present |-> TRUE,
       asks |-> <<Level(100400, 10)>>,
       bids |-> <<Level(99800, 10), Level(99790, 10), Level(99780, 10),
                  Level(99770, 5), Level(99760, 5)>>] }

RECURSIVE SumVolumeIdr(_)
SumVolumeIdr(orders) ==
    IF orders = <<>> THEN 0
    ELSE Head(orders).volumeIdr + SumVolumeIdr(Tail(orders))

RECURSIVE StrongestFrom(_, _)
\* blockingWalls.reduce((max, w) => w.volumeIdr > max.volumeIdr ? w : max)
StrongestFrom(max, rest) ==
    IF rest = <<>> THEN max
    ELSE StrongestFrom(IF Head(rest).volumeIdr > max.volumeIdr
                       THEN Head(rest) ELSE max, Tail(rest))

Abs(x) == IF x < 0 THEN -x ELSE x
Max(a, b) == IF a > b THEN a ELSE b
Min(a, b) == IF a < b THEN a ELSE b

\* signed profit of a scalp at a price, times entryPrice/100 percent:
\* PnLx(s, p) / s.entryPrice is the profit in basis points.
PnLx(s, price) ==
    IF s.direction = "long" THEN (price - s.entryPrice) * 10000
    ELSE (s.entryPrice - price) * 10000

\* breakProbability -= d in IEEE-754 doubles.  x and the result are in
\* thousandths: n*10 is the double nearest to n/100, n*10-1 a double just
\* below it, n*10+1 a double just above it.  0.3-0.1 = 0.19999999999999998,
\* 0.3-0.2 = 0.09999999999999998 and 0.4-0.1 = 0.30000000000000004; the other
\* subtractions the code can make are the nearest doubles.
FloatSub(x, d) ==
    IF x = 300 /\ d = 100 THEN 199
    ELSE IF x = 300 /\ d = 200 THEN 99
    ELSE IF x = 400 /\ d = 100 THEN 301
    ELSE x - d

\* analyzeWallsForExit calling a wall massive only above four times the
\* opposite volume
analyzeWallsForExitMassiveOver4(ob, currentPrice, signal) ==
    LET defaultResult == [hasBlockingWall |-> FALSE, wallStrength |-> "weak",
                          blocking |-> 0, breakProbability |-> 1000,
                          recommendation |-> "hold"]
        isLong == signal.direction = "long"
        wallsToCheck == IF isLong THEN ob.asks ELSE ob.bids
        isBlocking(o) ==
            IF isLong
            THEN o.price > currentPrice /\ o.price * 10000 < signal.takeProfit
            ELSE o.price < currentPrice /\ o.price * 10000 > signal.takeProfit
        blockingWalls == SelectSeq(wallsToCheck,
                                   LAMBDA o : isBlocking(o) /\ o.volumeIdr > 0)
        totalBlockingVolume == SumVolumeIdr(blockingWalls)
        strongestWall == StrongestFrom(Head(blockingWalls), Tail(blockingWalls))
        oppositeVolume == SumVolumeIdr(IF isLong THEN ob.bids ELSE ob.asks)
        \* volumeRatio = opposite > 0 ? total / opposite : 10
        ratioOver(k) == IF oppositeVolume > 0
                        THEN totalBlockingVolume > k * oppositeVolume
                        ELSE 10 > k
        wallStrength == IF ratioOver(4) THEN "massive"
                        ELSE IF ratioOver(2) THEN "strong"
                        ELSE IF ratioOver(1) THEN "medium"
                        ELSE "weak"
        p0 == 500
        p1 == IF wallStrength = "massive" THEN FloatSub(p0, 300)
              ELSE IF wallStrength = "strong" THEN FloatSub(p0, 200)
              ELSE IF wallStrength = "medium" THEN FloatSub(p0, 100)
              ELSE p0
        p2 == IF Len(blockingWalls) >= 5 THEN FloatSub(p1, 200)
              ELSE IF Len(blockingWalls) >= 3 THEN FloatSub(p1, 100)
              ELSE p1
        \* distancePercent < 0.1
        p3 == IF Abs(strongestWall.price - currentPrice) * 1000 < currentPrice
              THEN FloatSub(p2, 100) ELSE p2
        breakProbability == Max(50, Min(950, p3))
        recommendation ==
            IF breakProbability < 200 /\ wallStrength = "massive"
            THEN "exit_profit"
            ELSE IF breakProbability < 300
                    /\ wallStrength \in {"strong", "massive"}
            THEN "exit_profit"
            ELSE IF breakProbability < 400 THEN "tighten_tp"
            ELSE "hold"
    IN  IF ~ob.present THEN defaultResult
        ELSE IF blockingWalls = <<>> THEN defaultResult
        ELSE [hasBlockingWall |-> TRUE, wallStrength |-> wallStrength,
              blocking |-> Len(blockingWalls),
              breakProbability |-> breakProbability,
              recommendation |-> recommendation]

analyzeWallsForExit(ob, currentPrice, signal) ==
    LET defaultResult == [hasBlockingWall |-> FALSE, wallStrength |-> "weak",
                          blocking |-> 0, breakProbability |-> 1000,
                          recommendation |-> "hold"]
        isLong == signal.direction = "long"
        wallsToCheck == IF isLong THEN ob.asks ELSE ob.bids
        isBlocking(o) ==
            IF isLong
            THEN o.price > currentPrice /\ o.price * 10000 < signal.takeProfit
            ELSE o.price < currentPrice /\ o.price * 10000 > signal.takeProfit
        blockingWalls == SelectSeq(wallsToCheck,
                                   LAMBDA o : isBlocking(o) /\ o.volumeIdr > 0)
        totalBlockingVolume == SumVolumeIdr(blockingWalls)
        strongestWall == StrongestFrom(Head(blockingWalls), Tail(blockingWalls))
        oppositeVolume == SumVolumeIdr(IF isLong THEN ob.bids ELSE ob.asks)
        \* volumeRatio = opposite > 0 ? total / opposite : 10
        ratioOver(k) == IF oppositeVolume > 0
                        THEN totalBlockingVolume > k * oppositeVolume
                        ELSE 10 > k
        wallStrength == IF ratioOver(3) THEN "massive"
                        ELSE IF ratioOver(2) THEN "strong"
                        ELSE IF ratioOver(1) THEN "medium"
                        ELSE "weak"
        p0 == 500
        p1 == IF wallStrength = "massive" THEN FloatSub(p0, 300)
              ELSE IF wallStrength = "strong" THEN FloatSub(p0, 200)
              ELSE IF wallStrength = "medium" THEN FloatSub(p0, 100)
              ELSE p0
        p2 == IF Len(blockingWalls) >= 5 THEN FloatSub(p1, 200)
              ELSE IF Len(blockingWalls) >= 3 THEN FloatSub(p1, 100)
              ELSE p1
        \* distancePercent < 0.1
        p3 == IF Abs(strongestWall.price - currentPrice) * 1000 < currentPrice
              THEN FloatSub(p2, 100) ELSE p2
        breakProbability == Max(50, Min(950, p3))
        recommendation ==
            IF breakProbability < 200 /\ wallStrength = "massive"
            THEN "exit_profit"
            ELSE IF breakProbability < 300
                    /\ wallStrength \in {"strong", "massive"}
            THEN "exit_profit"
            ELSE IF breakProbability < 400 THEN "tighten_tp"
            ELSE "hold"
    IN  IF ~ob.present THEN defaultResult
        ELSE IF blockingWalls = <<>> THEN defaultResult
        ELSE [hasBlockingWall |-> TRUE, wallStrength |-> wallStrength,
              blocking |-> Len(blockingWalls),
              breakProbability |-> breakProbability,
              recommendation |-> recommendation]

\* checkScalpExit asking for a profit strictly above minProfitForWallExit
ExitReasonStrictProfit(s, currentPrice, ob, cfg) ==
    LET tpsl ==
            IF s.direction = "long"
            THEN IF currentPrice * 10000 >= s.takeProfit THEN "tp_hit"
                 ELSE IF currentPrice * 10000 <= s.stopLoss THEN "sl_hit"
                 ELSE "none"
            ELSE IF currentPrice * 10000 <= s.takeProfit THEN "tp_hit"
                 ELSE IF currentPrice * 10000 >= s.stopLoss THEN "sl_hit"
                 ELSE "none"
        wallAnalysis == analyzeWallsForExit(ob, currentPrice, s)
    IN  IF tpsl # "none" THEN tpsl
        ELSE IF /\ cfg.enableWallExit
                /\ PnLx(s, currentPrice) > cfg.minProfitForWallExit * s.entryPrice
                /\ wallAnalysis.hasBlockingWall
                /\ wallAnalysis.breakProbability < cfg.wallBreakThreshold
                /\ wallAnalysis.recommendation = "exit_profit"
        THEN "wall_exit"
        ELSE "none"

\* checkScalpExit deciding the wall exit before the TP/SL crossing
ExitReasonWallFirst(s, currentPrice, ob, cfg) ==
    LET tpsl ==
            IF s.direction = "long"
            THEN IF currentPrice * 10000 >= s.takeProfit THEN "tp_hit"
                 ELSE IF currentPrice * 10000 <= s.stopLoss THEN "sl_hit"
                 ELSE "none"
            ELSE IF currentPrice * 10000 <= s.takeProfit THEN "tp_hit"
                 ELSE IF currentPrice * 10000 >= s.stopLoss THEN "sl_hit"
                 ELSE "none"
        wallAnalysis == analyzeWallsForExit(ob, currentPrice, s)
    IN  IF /\ cfg.enableWallExit
           /\ PnLx(s, currentPrice) >= cfg.minProfitForWallExit * s.entryPrice
           /\ wallAnalysis.hasBlockingWall
           /\ wallAnalysis.breakProbability < cfg.wallBreakThreshold
           /\ wallAnalysis.recommendation = "exit_profit"
        THEN "wall_exit"
        ELSE tpsl

\* checkScalpExit entering the wall branch whether or not enableWallExit
\* is set
ExitReasonSwitchIgnored(s, currentPrice, ob, cfg) ==
    LET tpsl ==
            IF s.direction = "long"
            THEN IF currentPrice * 10000 >= s.takeProfit THEN "tp_hit"
                 ELSE IF currentPrice * 10000 <= s.stopLoss THEN "sl_hit"
                 ELSE "none"
            ELSE IF currentPrice * 10000 <= s.takeProfit THEN "tp_hit"
                 ELSE IF currentPrice * 10000 >= s.stopLoss THEN "sl_hit"
                 ELSE "none"
        wallAnalysis == analyzeWallsForExit(ob, currentPrice, s)
    IN  IF tpsl # "none" THEN tpsl
        ELSE IF /\ PnLx(s, currentPrice) >= cfg.minProfitForWallExit * s.entryPrice
                /\ wallAnalysis.hasBlockingWall
                /\ wallAnalysis.breakProbability < cfg.wallBreakThreshold
                /\ wallAnalysis.recommendation = "exit_profit"
        THEN "wall_exit"
        ELSE "none"

\* The exit reason checkScalpExit decides for an active scalp ("none": stay).
ExitReason(s, currentPrice, ob, cfg) ==
    LET tpsl ==
            IF s.direction = "long"
            THEN IF currentPrice * 10000 >= s.takeProfit THEN "tp_hit"
                 ELSE IF currentPrice * 10000 <= s.stopLoss THEN "sl_hit"
                 ELSE "none"
            ELSE IF currentPrice * 10000 <= s.takeProfit THEN "tp_hit"
                 ELSE IF currentPrice * 10000 >= s.stopLoss THEN "sl_hit"
                 ELSE "none"
        wallAnalysis == analyzeWallsForExit(ob, currentPrice, s)
    IN  IF tpsl # "none" THEN tpsl
        ELSE IF /\ cfg.enableWallExit
                /\ PnLx(s, currentPrice) >= cfg.minProfitForWallExit * s.entryPrice
                /\ wallAnalysis.hasBlockingWall
                /\ wallAnalysis.breakProbability < cfg.wallBreakThreshold
                /\ wallAnalysis.recommendation = "exit_profit"
        THEN "wall_exit"
        ELSE "none"

ScalpEvent(type, id) == [type |-> type, scalp |-> id]

(***************************************************************************)
(* Scalper: operations                                                     *)
(***************************************************************************)
\* checkScalpExit(symbol, currentPrice); ob is the order book the realtime
\* cache holds at the call.
checkScalpExit(symbol, currentPrice, ob) ==
    LET id == activeScalps[symbol] IN
    IF id = 0 \/ scalps[id].status # "active"
    THEN /\ sEmitted' = <<>>
         /\ UNCHANGED <<scalps, tradeHistory, activeScalps>>
    ELSE LET exitReason == ExitReason(scalps[id], currentPrice, ob, config) IN
         IF exitReason = "none"
         THEN /\ sEmitted' = <<>>
              /\ UNCHANGED <<scalps, tradeHistory, activeScalps>>
         ELSE /\ scalps' = [scalps EXCEPT ![id] =
                     [@ EXCEPT !.status = exitReason,
                               !.exitTime = now,
                               !.exitPrice = currentPrice,
                               !.profitPercent = PnLx(scalps[id], currentPrice)]]
              /\ tradeHistory' = Append(tradeHistory, id)
              /\ activeScalps' = [activeScalps EXCEPT ![symbol] = 0]
              /\ sEmitted' = <<ScalpEvent("exit", id)>>

\* scalper.checkScalpExit called directly (the streamed price handler).
CheckScalpExit(symbol, currentPrice, ob) ==
    /\ checkScalpExit(symbol, currentPrice, ob)
    /\ UNCHANGED <<now, config, lastSignalTime, analyzing>>
    /\ UNCHANGED <<fetcherVars, trackerVars, streamVars, analyzerVars>>

Pending == [symbol : ScalpSymbols, price : Prices]

RECURSIVE BagSize(_, _)
BagSize(b, dom) ==
    IF dom = {} THEN 0
    ELSE LET x == CHOOSE y \in dom : TRUE IN b[x] + BagSize(b, dom \ {x})

\* number of analyze() calls suspended at the await
InFlight == BagSize(analyzing, Pending)

\* analyze() testing the active scalp before the cooldown
AnalyzeStartExitFirst(symbol, currentPrice, ob) ==
    /\ UNCHANGED <<fetcherVars, trackerVars, streamVars, analyzerVars>>
    /\ IF activeScalps[symbol] # 0
          /\ scalps[activeScalps[symbol]].status = "active"
       THEN /\ checkScalpExit(symbol, currentPrice, ob)
            /\ UNCHANGED <<now, config, lastSignalTime, analyzing>>
       ELSE IF now - lastSignalTime[symbol] < config.cooldownMs
       THEN /\ sEmitted' = <<>>
            /\ UNCHANGED <<now, config, lastSignalTime, activeScalps, scalps,
                           tradeHistory, analyzing>>
       ELSE /\ InFlight < MaxCalls
            /\ analyzing' = [analyzing EXCEPT
                   ![[symbol |-> symbol, price |-> currentPrice]] = @ + 1]
            /\ sEmitted' = <<>>
            /\ UNCHANGED <<now, config, lastSignalTime, activeScalps, scalps,
                           tradeHistory>>

\* analyze(symbol, currentPrice) up to its first await.
AnalyzeStart(symbol, currentPrice, ob) ==
    /\ UNCHANGED <<fetcherVars, trackerVars, streamVars, analyzerVars>>
    /\ IF now - lastSignalTime[symbol] < config.cooldownMs
       THEN /\ sEmitted' = <<>>
            /\ UNCHANGED <<now, config, lastSignalTime, activeScalps, scalps,
                           tradeHistory, analyzing>>
       ELSE IF activeScalps[symbol] # 0
               /\ scalps[activeScalps[symbol]].status = "active"
       THEN /\ checkScalpExit(symbol, currentPrice, ob)
            /\ UNCHANGED <<now, config, lastSignalTime, analyzing>>
       ELSE /\ InFlight < MaxCalls
            /\ analyzing' = [analyzing EXCEPT
                   ![[symbol |-> symbol, price |-> currentPrice]] = @ + 1]
            /\ sEmitted' = <<>>
            /\ UNCHANGED <<now, config, lastSignalTime, activeScalps, scalps,
                           tradeHistory>>

\* the signal carrying the raw confidence, without Math.min(1, confidence)
NewScalpUncapped(symbol, direction, currentPrice, confidence, cfg, t) ==
    [symbol |-> symbol, direction |-> direction,
     entryPrice |-> currentPrice,
     takeProfit |-> IF direction = "long"
                    THEN currentPrice * (10000 + cfg.takeProfitPercent)
                    ELSE currentPrice * (10000 - cfg.takeProfitPercent),
     stopLoss |-> IF direction = "long"
                  THEN currentPrice * (10000 - cfg.stopLossPercent)
                  ELSE currentPrice * (10000 + cfg.stopLossPercent),
     confidence |-> confidence,
     timestamp |-> t, status |-> "active",
     entryTime |-> t, exitTime |-> 0, exitPrice |-> 0,
     profitPercent |-> 0]

\* The ActiveScalp (with its ScalpSignal) analyze() constructs on acceptance.
NewScalp(symbol, direction, currentPrice, confidence, cfg, t) ==
    [symbol |-> symbol, direction |-> direction,
     entryPrice |-> currentPrice,
     takeProfit |-> IF direction = "long"
                    THEN currentPrice * (10000 + cfg.takeProfitPercent)
                    ELSE currentPrice * (10000 - cfg.takeProfitPercent),
     stopLoss |-> IF direction = "long"
                  THEN currentPrice * (10000 - cfg.stopLossPercent)
                  ELSE currentPrice * (10000 + cfg.stopLossPercent),
     confidence |-> Min(100, confidence),
     timestamp |-> t, status |-> "active",
     entryTime |-> t, exitTime |-> 0, exitPrice |-> 0,
     profitPercent |-> 0]

\* analyze() resuming without the risk/reward gate
AnalyzeResumeNoRiskReward(c, longScore, shortScore) ==
    LET symbol == c.symbol
        currentPrice == c.price
        direction == IF longScore > shortScore THEN "long" ELSE "short"
        confidence == Max(longScore, shortScore)
        id == Len(scalps) + 1
        rejected == confidence < config.minConfidence
    IN
    /\ analyzing[c] > 0
    /\ analyzing' = [analyzing EXCEPT ![c] = @ - 1]
    /\ IF rejected
       THEN /\ sEmitted' = <<>>
            /\ UNCHANGED <<lastSignalTime, activeScalps, scalps>>
       ELSE /\ Len(scalps) < MaxScalps
            /\ lastSignalTime' = [lastSignalTime EXCEPT ![symbol] = now]
            /\ scalps' = Append(scalps,
                   NewScalp(symbol, direction, currentPrice, confidence,
                            config, now))
            /\ activeScalps' = [activeScalps EXCEPT ![symbol] = id]
            /\ sEmitted' = <<ScalpEvent("signal", id)>>
    /\ UNCHANGED <<now, config, tradeHistory>>
    /\ UNCHANGED <<fetcherVars, trackerVars, streamVars, analyzerVars>>

\* analyze() from the return of the order-book await to its end.  The scores
\* accumulated from the order book, the indicators, the trade flow, the volume
\* spike and the price action are inputs.
AnalyzeResume(c, longScore, shortScore) ==
    LET symbol == c.symbol
        currentPrice == c.price
        direction == IF longScore > shortScore THEN "long" ELSE "short"
        confidence == Max(longScore, shortScore)
        id == Len(scalps) + 1
        rejected == \/ confidence < config.minConfidence
                    \/ config.takeProfitPercent * 10
                          < config.minRiskReward * config.stopLossPercent
    IN
    /\ analyzing[c] > 0
    /\ analyzing' = [analyzing EXCEPT ![c] = @ - 1]
    /\ IF rejected
       THEN /\ sEmitted' = <<>>
            /\ UNCHANGED <<lastSignalTime, activeScalps, scalps>>
       ELSE /\ Len(scalps) < MaxScalps
            /\ lastSignalTime' = [lastSignalTime EXCEPT ![symbol] = now]
            /\ scalps' = Append(scalps,
                   NewScalp(symbol, direction, currentPrice, confidence,
                            config, now))
            /\ activeScalps' = [activeScalps EXCEPT ![symbol] = id]
            /\ sEmitted' = <<ScalpEvent("signal", id)>>
    /\ UNCHANGED <<now, config, tradeHistory>>
    /\ UNCHANGED <<fetcherVars, trackerVars, streamVars, analyzerVars>>

\* manualExit() that archives the scalp without setting its status
ManualExitKeepsStatus(symbol, exitPrice) ==
    LET id == activeScalps[symbol] IN
    /\ IF id = 0 \/ scalps[id].status # "active"
       THEN UNCHANGED <<scalps, tradeHistory, activeScalps>>
       ELSE /\ scalps' = [scalps EXCEPT ![id] =
                   [@ EXCEPT !.exitTime = now,
                             !.exitPrice = exitPrice,
                             !.profitPercent = PnLx(scalps[id], exitPrice)]]
            /\ tradeHistory' = Append(tradeHistory, id)
            /\ activeScalps' = [activeScalps EXCEPT ![symbol] = 0]
    /\ sEmitted' = <<>>
    /\ UNCHANGED <<now, config, lastSignalTime, analyzing>>
    /\ UNCHANGED <<fetcherVars, trackerVars, streamVars, analyzerVars>>

ManualExit(symbol, exitPrice) ==
    LET id == activeScalps[symbol] IN
    /\ IF id = 0 \/ scalps[id].status # "active"
       THEN UNCHANGED <<scalps, tradeHistory, activeScalps>>
       ELSE /\ scalps' = [scalps EXCEPT ![id] =
                   [@ EXCEPT !.status = "manual_exit",
                             !.exitTime = now,
                             !.exitPrice = exitPrice,
                             !.profitPercent = PnLx(scalps[id], exitPrice)]]
            /\ tradeHistory' = Append(tradeHistory, id)
            /\ activeScalps' = [activeScalps EXCEPT ![symbol] = 0]
    /\ sEmitted' = <<>>
    /\ UNCHANGED <<now, config, lastSignalTime, analyzing>>
    /\ UNCHANGED <<fetcherVars, trackerVars, streamVars, analyzerVars>>

\* the ActiveScalp objects of tradeHistory, in order
History == [i \in DOMAIN tradeHistory |-> scalps[tradeHistory[i]]]

\* t.profitPercent in hundredths of a basis point
ProfitOf(t) == (t.profitPercent * 100) \div t.entryPrice

\* t.duration
DurationOf(t) == t.exitTime - t.entryTime

RECURSIVE SumOver(_, _)
\* trades.reduce((sum, t) => sum + (f(t) || 0), 0)
SumOver(f(_), trades) ==
    IF trades = <<>> THEN 0
    ELSE f(Head(trades)) + SumOver(f, Tail(trades))

\* getStats() counting every wall exit as a win
getStatsAllWallExits(trades) ==
    LET wins == SelectSeq(trades, LAMBDA t : t.status = "tp_hit")
        wallExits == SelectSeq(trades, LAMBDA t : t.status = "wall_exit")
        losses == SelectSeq(trades, LAMBDA t : t.status = "sl_hit")
        totalProfit == SumOver(ProfitOf, trades)
        totalWins == Len(wins) + Len(wallExits)
        n == Len(trades)
    IN [totalTrades |-> n,
        wins |-> totalWins,
        losses |-> Len(losses),
        wallExits |-> Len(wallExits),
        winRate |-> IF n > 0 THEN [num |-> totalWins * 100, den |-> n]
                    ELSE [num |-> 0, den |-> 1],
        avgProfit |-> IF n > 0 THEN [num |-> totalProfit, den |-> n]
                      ELSE [num |-> 0, den |-> 1],
        avgDuration |-> IF n > 0
                        THEN [num |-> SumOver(DurationOf, trades), den |-> n]
                        ELSE [num |-> 0, den |-> 1],
        totalProfit |-> totalProfit]

\* getStats() over the history `trades`; a quotient is kept as num / den
getStats(trades) ==
    LET wins == SelectSeq(trades, LAMBDA t : t.status = "tp_hit")
        wallExits == SelectSeq(trades, LAMBDA t : t.status = "wall_exit"
                                                  /\ t.profitPercent > 0)
        losses == SelectSeq(trades, LAMBDA t : t.status = "sl_hit")
        totalProfit == SumOver(ProfitOf, trades)
        totalWins == Len(wins) + Len(wallExits)
        n == Len(trades)
    IN [totalTrades |-> n,
        wins |-> totalWins,
        losses |-> Len(losses),
        wallExits |-> Len(wallExits),
        winRate |-> IF n > 0 THEN [num |-> totalWins * 100, den |-> n]
                    ELSE [num |-> 0, den |-> 1],
        avgProfit |-> IF n > 0 THEN [num |-> totalProfit, den |-> n]
                      ELSE [num |-> 0, den |-> 1],
        avgDuration |-> IF n > 0
                        THEN [num |-> SumOver(DurationOf, trades), den |-> n]
                        ELSE [num |-> 0, den |-> 1],
        totalProfit |-> totalProfit]

\* Partial configurations passed to updateConfig(): a stop loss that puts
\* the risk/reward under the minimum, and the default one.
ConfigUpdates ==
    { [k \in {"stopLossPercent"} |-> 30],
      [k \in {"stopLossPercent"} |-> DEFAULT_CONFIG.stopLossPercent] }

\* { ...this.config, ...config }
Merge(base, partial) ==
    [k \in DOMAIN base |-> IF k \in DOMAIN partial THEN partial[k] ELSE base[k]]

\* updateConfig(config)
UpdateConfig(partial) ==
    /\ config' = Merge(config, partial)
    /\ sEmitted' = <<>>
    /\ UNCHANGED <<now, lastSignalTime, activeScalps, scalps, tradeHistory,
                   analyzing>>
    /\ UNCHANGED <<fetcherVars, trackerVars, streamVars, analyzerVars>>

\* Time passes.
Tick ==
    /\ now < Epoch + MaxTicks * TickMs
    /\ now' = now + TickMs
    /\ UNCHANGED <<config, lastSignalTime, activeScalps, scalps, tradeHistory,
                   analyzing, sEmitted>>
    /\ UNCHANGED <<fetcherVars, trackerVars, streamVars, analyzerVars>>

ScalperInit ==
    /\ now = Epoch
    /\ config = DEFAULT_CONFIG
    /\ lastSignalTime = [s \in ScalpSymbols |-> 0]
    /\ activeScalps = [s \in ScalpSymbols |-> 0]
    /\ scalps = <<>>
    /\ tradeHistory = <<>>
    /\ analyzing = [c \in Pending |-> 0]
    /\ sEmitted = <<>>

ScalperNext ==
    \/ Tick
    \/ \E s \in ScalpSymbols, p \in Prices, ob \in OrderBooks : AnalyzeStart(s, p, ob)
    \/ \E c \in Pending, l \in Scores, sh \in Scores : AnalyzeResume(c, l, sh)
    \/ \E s \in ScalpSymbols, p \in Prices, ob \in OrderBooks : CheckScalpExit(s, p, ob)
    \/ \E s \in ScalpSymbols, p \in Prices : ManualExit(s, p)
    \/ \E partial \in ConfigUpdates : UpdateConfig(partial)

(***************************************************************************)
(* RealtimeFetcher: helpers                                                *)
(***************************************************************************)
RECONNECT_DELAY_MS == 5000

Sockets == 1..MaxSockets

\* symbol.replace('/', '').toLowerCase()
symbolToPair(symbol) ==
    CASE symbol = "BTC/IDR" -> "btcidr"
      [] symbol = "ETH/IDR" -> "ethidr"

TradeChannel(symbol) == "market:trade-activity-" \o symbolToPair(symbol)
BookChannel(symbol) == "market:order-book-" \o symbolToPair(symbol)

\* An outbound message.  method 0: no method field (the authentication
\* message {params: {token}, id}); 1: subscribe; 2: unsubscribe.
Msg(method, channel, id) == [method |-> method, channel |-> channel, id |-> id]
AuthMessage(id) == Msg(0, "", id)

\* the two sends of subscribeToSymbol, ids taken from messageId++
SubscribeMessages(symbol, id) ==
    <<Msg(1, TradeChannel(symbol), id), Msg(1, BookChannel(symbol), id + 1)>>

UnsubscribeMessages(symbol, id) ==
    <<Msg(2, TradeChannel(symbol), id), Msg(2, BookChannel(symbol), id + 1)>>

RECURSIVE ResubscribeMessages(_, _)
\* for (const symbol of this.subscribedSymbols) this.subscribeToSymbol(symbol)
ResubscribeMessages(symbols, id) ==
    IF symbols = <<>> THEN <<>>
    ELSE SubscribeMessages(Head(symbols), id)
            \o ResubscribeMessages(Tail(symbols), id + 2)

\* Set.add / Set.delete on the insertion-ordered subscription set
SetAdd(seq, x) == IF \E i \in DOMAIN seq : seq[i] = x THEN seq ELSE Append(seq, x)
SetDelete(seq, x) == SelectSeq(seq, LAMBDA y : y # x)
Elements(seq) == {seq[i] : i \in DOMAIN seq}

\* ws.send on socket `target`: an open socket takes the messages; a socket
\* still CONNECTING throws on the first send; a closing or closed socket
\* discards them.
Written(target, msgs) ==
    IF target # 0 /\ socks[target].state = "open" THEN msgs ELSE <<>>

\* how many times messageId++ was evaluated by those sends
Used(target, msgs) ==
    IF target = 0 \/ msgs = <<>> THEN 0
    ELSE IF socks[target].state = "connecting" THEN 1
    ELSE Len(msgs)

SendOn(target, msgs) ==
    /\ messageId + Used(target, msgs) <= MaxMessageId + 1
    /\ messageId' = messageId + Used(target, msgs)
    /\ fSent' = Written(target, msgs)
    /\ sent' = IF target = 0 THEN sent
               ELSE [sent EXCEPT ![target] = @ \o Written(target, msgs)]

NoSocket == [state |-> "closed", promise |-> "none", origin |-> "none",
             authTimer |-> FALSE]

IsFree(s) == socks[s] = NoSocket

\* no entry in priceCache; orderBook NoBook is the absent (undefined) field
NoCache == [present |-> FALSE, price |-> 0, orderBook |-> NoBook]

\* the market data as constructed
StreamInit ==
    /\ priceCache = [s \in Symbols |-> NoCache]
    /\ tradeBuffer = [s \in Symbols |-> <<>>]
    /\ received = [s \in Symbols |-> 0]
    /\ candles = [s \in Symbols |-> <<>>]

\* no row in orderbook_snapshots
NoAnalysis == [id |-> 0]

AnalyzerInit == lastAnalysis = NoAnalysis

TimerCount == (IF timers.handle > 0 THEN 1 ELSE 0) + timers.orphans

\* scheduleReconnect() without the clearTimeout of the previous timer
scheduleReconnectNoClear(handle, t) ==
    [handle |-> RECONNECT_DELAY_MS,
     orphans |-> t.orphans + (IF t.handle > 0 THEN 1 ELSE 0)]

\* scheduleReconnect(): clearTimeout(this.reconnectTimeout) when it is set,
\* then this.reconnectTimeout = setTimeout(..., 5000).
scheduleReconnect(handle, t) ==
    [handle |-> RECONNECT_DELAY_MS,
     orphans |-> t.orphans + (IF handle = "null" /\ t.handle > 0 THEN 1 ELSE 0)]

\* reject() of the promise of the connect() that created socket s
Rejected(sock) ==
    IF sock.promise = "pending"
    THEN [sock EXCEPT !.promise = "rejected", !.origin = "none",
                      !.authTimer = FALSE]
    ELSE sock

\* A closed socket whose connect() has settled has no handler left that can
\* run: the object is garbage, its slot is NoSocket again.
Collect(sock) ==
    IF sock.state = "closed" /\ sock.promise # "pending" THEN NoSocket ELSE sock

CollectSent(ss, log) ==
    [t \in Sockets |-> IF ss[t] = NoSocket THEN <<>> ELSE log[t]]

\* the catch of the reconnect callback runs when its connect() rejects
CatchReschedules(sock) == sock.promise = "pending" /\ sock.origin = "reconnect"

(***************************************************************************)
(* RealtimeFetcher: operations                                             *)
(***************************************************************************)
\* the body of connect(); origin tells the caller from the reconnect timer
connect(origin) ==
    IF ws # 0 /\ isConnected
    THEN UNCHANGED <<ws, socks, sent>>
    ELSE /\ \E s \in Sockets : IsFree(s)
         /\ LET s == CHOOSE x \in Sockets :
                        IsFree(x) /\ \A y \in Sockets : IsFree(y) => x <= y
            IN /\ socks' = [socks EXCEPT ![s] =
                               [state |-> "connecting", promise |-> "pending",
                                origin |-> origin, authTimer |-> TRUE]]
               /\ sent' = [sent EXCEPT ![s] = <<>>]
               /\ ws' = s

Connect ==
    /\ ~crashed
    /\ UNCHANGED crashed
    /\ connect("caller")
    /\ stopped' = FALSE
    /\ fSent' = <<>>
    /\ fEmitted' = <<>>
    /\ UNCHANGED <<isConnected, messageId, subscribedSymbols, reconnectTimeout,
                   timers, tracked>>
    /\ UNCHANGED <<scalperVars, trackerVars, streamVars, analyzerVars>>

\* the reconnect timer fires: await this.connect()
ReconnectFire ==
    /\ ~crashed
    /\ UNCHANGED crashed
    /\ TimerCount > 0
    /\ \/ /\ timers.handle > 0
          /\ timers' = [timers EXCEPT !.handle = 0]
       \/ /\ timers.orphans > 0
          /\ timers' = [timers EXCEPT !.orphans = @ - 1]
    /\ connect("reconnect")
    /\ fSent' = <<>>
    /\ fEmitted' = <<>>
    /\ UNCHANGED <<isConnected, messageId, subscribedSymbols, reconnectTimeout,
                   stopped, tracked>>
    /\ UNCHANGED <<scalperVars, trackerVars, streamVars, analyzerVars>>

\* ws.on('open'): authenticate()
SocketOpen(s) ==
    /\ ~crashed
    /\ socks[s].state = "connecting"
    /\ socks' = [socks EXCEPT ![s].state = "open"]
    /\ IF ws = 0
       THEN /\ UNCHANGED <<messageId, sent, crashed>>
            /\ fSent' = <<>>
       ELSE LET msgs == <<AuthMessage(messageId)>>
                \* this.ws is the socket of the latest connect(), not
                \* necessarily the one that opened
                written == IF socks'[ws].state = "open" THEN msgs ELSE <<>>
            IN /\ messageId + 1 <= MaxMessageId + 1
               /\ messageId' = messageId + 1
               /\ fSent' = written
               /\ sent' = [sent EXCEPT ![ws] = @ \o written]
               \* send() on a socket still CONNECTING throws out of the
               \* 'open' listener: an uncaught exception
               /\ crashed' = (socks'[ws].state = "connecting")
    /\ fEmitted' = <<>>
    /\ UNCHANGED <<ws, isConnected, subscribedSymbols, reconnectTimeout, timers,
                   stopped, tracked>>
    /\ UNCHANGED <<scalperVars, trackerVars, streamVars, analyzerVars>>

\* ws.on('message'): handleMessage of a message {id, result} without channel
HandleMessage(s, id, result) ==
    /\ ~crashed
    /\ UNCHANGED crashed
    /\ socks[s].state \in {"open", "closing"}
    /\ IF id = 1 /\ result
       THEN /\ isConnected' = TRUE
            /\ fEmitted' = <<"connected">>
            \* this.once('connected') of every connect() still waiting
            /\ socks' = [t \in Sockets |->
                           IF socks[t].promise = "pending"
                           THEN Collect([socks[t] EXCEPT
                                           !.promise = "resolved",
                                           !.origin = "none",
                                           !.authTimer = FALSE])
                           ELSE socks[t]]
            /\ SendOn(ws, ResubscribeMessages(subscribedSymbols, messageId))
       ELSE /\ fEmitted' = <<>>
            /\ fSent' = <<>>
            /\ UNCHANGED <<isConnected, socks, messageId, sent>>
    /\ UNCHANGED <<ws, subscribedSymbols, reconnectTimeout, timers, stopped,
                   tracked>>
    /\ UNCHANGED <<scalperVars, trackerVars, streamVars, analyzerVars>>

\* the handshake fails (or was aborted by close()): ws emits 'error' and then
\* 'close' in the same turn; the catch of a reconnect attempt runs right after.
SocketFail(s) ==
    /\ ~crashed
    /\ UNCHANGED crashed
    /\ socks[s].state \in {"connecting", "aborted"}
    /\ socks' = [socks EXCEPT ![s] =
                     Collect([Rejected(@) EXCEPT !.state = "closed"])]
    /\ sent' = CollectSent(socks', sent)
    /\ isConnected' = FALSE
    /\ fEmitted' = <<"error", "disconnected">>
    /\ reconnectTimeout' = "set"
    /\ timers' = LET t1 == scheduleReconnect(reconnectTimeout, timers)
                 IN IF CatchReschedules(socks[s])
                    THEN scheduleReconnect("set", t1) ELSE t1
    /\ fSent' = <<>>
    /\ UNCHANGED <<ws, messageId, subscribedSymbols, stopped, tracked>>
    /\ UNCHANGED <<scalperVars, trackerVars, streamVars, analyzerVars>>

\* ws.on('close') of an established (or closing) session
SocketClose(s) ==
    /\ ~crashed
    /\ UNCHANGED crashed
    /\ socks[s].state \in {"open", "closing"}
    /\ socks' = [socks EXCEPT ![s] = Collect([@ EXCEPT !.state = "closed"])]
    /\ sent' = CollectSent(socks', sent)
    /\ isConnected' = FALSE
    /\ fEmitted' = <<"disconnected">>
    /\ reconnectTimeout' = "set"
    /\ timers' = scheduleReconnect(reconnectTimeout, timers)
    /\ fSent' = <<>>
    /\ UNCHANGED <<ws, messageId, subscribedSymbols, stopped, tracked>>
    /\ UNCHANGED <<scalperVars, trackerVars, streamVars, analyzerVars>>

\* the 10 s authentication timeout of the connect() that created socket s
AuthTimeout(s) ==
    /\ ~crashed
    /\ UNCHANGED crashed
    /\ socks[s].authTimer
    /\ IF ~isConnected
       THEN /\ socks' = [socks EXCEPT ![s] = Collect(Rejected(@))]
            /\ IF CatchReschedules(socks[s])
               THEN /\ reconnectTimeout' = "set"
                    /\ timers' = scheduleReconnect(reconnectTimeout, timers)
               ELSE UNCHANGED <<reconnectTimeout, timers>>
       ELSE /\ socks' = [socks EXCEPT ![s].authTimer = FALSE]
            /\ UNCHANGED <<reconnectTimeout, timers>>
    /\ sent' = CollectSent(socks', sent)
    /\ fSent' = <<>>
    /\ fEmitted' = <<>>
    /\ UNCHANGED <<ws, isConnected, messageId, subscribedSymbols, stopped,
                   tracked>>
    /\ UNCHANGED <<scalperVars, trackerVars, streamVars, analyzerVars>>

Subscribe(symbol) ==
    /\ ~crashed
    /\ UNCHANGED crashed
    /\ subscribedSymbols' = SetAdd(subscribedSymbols, symbol)
    /\ tracked' = tracked \cup {symbol}
    /\ IF isConnected /\ ws # 0
       THEN SendOn(ws, SubscribeMessages(symbol, messageId))
       ELSE fSent' = <<>> /\ UNCHANGED <<messageId, sent>>
    /\ fEmitted' = <<>>
    /\ UNCHANGED <<ws, socks, isConnected, reconnectTimeout, timers, stopped>>
    /\ UNCHANGED <<scalperVars, trackerVars, streamVars, analyzerVars>>

Unsubscribe(symbol) ==
    /\ ~crashed
    /\ UNCHANGED crashed
    /\ subscribedSymbols' = SetDelete(subscribedSymbols, symbol)
    /\ tracked' = tracked \ {symbol}
    /\ IF isConnected /\ ws # 0
       THEN SendOn(ws, UnsubscribeMessages(symbol, messageId))
       ELSE fSent' = <<>> /\ UNCHANGED <<messageId, sent>>
    /\ fEmitted' = <<>>
    /\ UNCHANGED <<ws, socks, isConnected, reconnectTimeout, timers, stopped>>
    /\ UNCHANGED <<scalperVars, trackerVars, streamVars, analyzerVars>>

Disconnect ==
    /\ ~crashed
    /\ UNCHANGED crashed
    /\ timers' = IF reconnectTimeout = "set"
                 THEN [timers EXCEPT !.handle = 0] ELSE timers
    /\ reconnectTimeout' = "null"
    /\ socks' = IF ws = 0 THEN socks
                ELSE [socks EXCEPT ![ws].state =
                        IF @ = "open" THEN "closing"
                        ELSE IF @ = "connecting" THEN "aborted" ELSE @]
    /\ ws' = 0
    /\ isConnected' = FALSE
    /\ subscribedSymbols' = <<>>
    /\ tracked' = {}
    /\ stopped' = TRUE
    /\ fSent' = <<>>
    /\ fEmitted' = <<>>
    /\ UNCHANGED <<sent, messageId>>
    \* this.priceCache.clear(); this.tradeBuffer.clear()
    /\ priceCache' = [s \in Symbols |-> NoCache]
    /\ tradeBuffer' = [s \in Symbols |-> <<>>]
    /\ received' = [s \in Symbols |-> 0]
    /\ candles' = [s \in Symbols |-> <<>>]
    /\ UNCHANGED <<scalperVars, trackerVars, analyzerVars>>

FetcherInit ==
    /\ ws = 0
    /\ socks = [s \in Sockets |-> NoSocket]
    /\ sent = [s \in Sockets |-> <<>>]
    /\ isConnected = FALSE
    /\ messageId = 1
    /\ subscribedSymbols = <<>>
    /\ reconnectTimeout = "null"
    /\ timers = [handle |-> 0, orphans |-> 0]
    /\ crashed = FALSE
    /\ stopped = FALSE
    /\ tracked = {}
    /\ fSent = <<>>
    /\ fEmitted = <<>>

FetcherNext ==
    \/ Connect
    \/ ReconnectFire
    \/ \E s \in Sockets : SocketOpen(s)
    \/ \E s \in Sockets, id \in 1..MaxMessageId, r \in BOOLEAN :
          HandleMessage(s, id, r)
    \/ \E s \in Sockets : SocketFail(s)
    \/ \E s \in Sockets : SocketClose(s)
    \/ \E s \in Sockets : AuthTimeout(s)
    \/ \E sym \in Symbols : Subscribe(sym)
    \/ \E sym \in Symbols : Unsubscribe(sym)
    \/ Disconnect

(***************************************************************************)
(* PositionTracker: helpers                                                *)
(***************************************************************************)
TaskSlots == 1..MaxTasks

\* A row of the positions table.  take_profit_price / stop_loss_price 0 is
\* the absent (null) value, falsy in the code.
Position(id, symbol, side, tp, sl) ==
    [id |-> id, symbol |-> symbol, side |-> side, entry_price |-> 100000,
     take_profit_price |-> tp, stop_loss_price |-> sl, status |-> "open"]

\* The positions tables the model starts from: the positions the Execution
\* Gateway has opened, oldest first.
PositionTables ==
    {<<Position(1, "BTC/IDR", "long", 100300, 99850)>>,
     <<Position(1, "BTC/IDR", "short", 99850, 100300)>>,
     <<Position(1, "BTC/IDR", "long", 0, 99850)>>,
     <<Position(1, "ETH/IDR", "long", 100300, 0)>>,
     <<Position(1, "BTC/IDR", "long", 100300, 99850),
       Position(2, "ETH/IDR", "long", 100300, 0)>>,
     <<Position(1, "BTC/IDR", "short", 99850, 100300),
       Position(2, "BTC/IDR", "long", 100300, 99850)>>}

\* orderRepo.getAllOpenPositions(symbol?): the open rows, newest first;
\* symbol "" is the call without argument
RECURSIVE OpenFrom(_, _, _)
OpenFrom(db, symbol, id) ==
    IF id = 0 THEN <<>>
    ELSE (IF db[id].status = "open" /\ (symbol = "" \/ db[id].symbol = symbol)
          THEN <<db[id]>> ELSE <<>>) \o OpenFrom(db, symbol, id - 1)

getAllOpenPositions(db, symbol) == OpenFrom(db, symbol, Len(db))

\* orderRepo.closePosition(id, ...)
closePositionRow(db, id) == [db EXCEPT ![id].status = "closed"]

hitTp(position, currentPrice) ==
    /\ position.take_profit_price # 0
    /\ \/ position.side = "long" /\ currentPrice >= position.take_profit_price
       \/ position.side = "short" /\ currentPrice <= position.take_profit_price

hitSl(position, currentPrice) ==
    /\ position.stop_loss_price # 0
    /\ \/ position.side = "long" /\ currentPrice <= position.stop_loss_price
       \/ position.side = "short" /\ currentPrice >= position.stop_loss_price

TrackerEvent(type, id) == [type |-> type, position |-> id]

\* A handlePriceUpdate ("price") or checkAllPositions ("sweep") call that is
\* suspended: at position i of its snapshot, in indodax.fetchTicker
\* ("ticker") or in exchange.createOrder of closePosition ("closing").
NoTask == [kind |-> "none", pc |-> "done", price |-> 0, snapshot |-> <<>>,
           i |-> 0]

\* The loop of checkAllPositions / checkPositionsForSymbol from position i
\* of the snapshot up to its next REST call.  The awaits in between resume
\* in microtasks of the same turn, so the database, lastPrices and the
\* credentials are those of the turn.  Result: where the call is suspended
\* (or "done"), the events emitted and the closePosition() calls made.
RECURSIVE RunLoop(_, _, _, _, _, _, _)
RECURSIVE CheckFrom(_, _, _, _, _, _, _, _)
\* checkPosition(snapshot[i], currentPrice) and, unless it is suspended in
\* closePosition, the rest of the loop
CheckFrom(kind, snapshot, i, currentPrice, p, db, lp, creds) ==
    LET position == snapshot[i]
        hit == hitTp(position, currentPrice) \/ hitSl(position, currentPrice)
        update == TrackerEvent("position:update", position.id)
    IN IF position.status # "open"
       THEN RunLoop(kind, snapshot, i + 1, p, db, lp, creds)
       ELSE IF hit /\ db[position.id].status # "closed" /\ creds
       THEN \* closePosition() awaits exchange.createOrder
            [pc |-> "closing", i |-> i, price |-> currentPrice,
             events |-> <<update>>, called |-> <<position.id>>]
       ELSE \* no close, or closePosition() returned success: false at once
            \* ('Position already closed', 'Failed to get exchange
            \* credentials')
            LET rest == RunLoop(kind, snapshot, i + 1, p, db, lp, creds)
            IN [rest EXCEPT
                  !.events = <<update>>
                      \o (IF hit
                          THEN <<TrackerEvent("position:close_failed",
                                              position.id)>>
                          ELSE <<>>) \o @,
                  !.called = (IF hit THEN <<position.id>> ELSE <<>>) \o @]

RunLoop(kind, snapshot, i, p, db, lp, creds) ==
    IF i > Len(snapshot)
    THEN [pc |-> "done", i |-> i, price |-> 0, events |-> <<>>,
          called |-> <<>>]
    ELSE LET currentPrice == IF kind = "price" THEN p
                             ELSE lp[snapshot[i].symbol]
         IN IF currentPrice = 0
            THEN [pc |-> "ticker", i |-> i, price |-> 0, events |-> <<>>,
                  called |-> <<>>]
            ELSE CheckFrom(kind, snapshot, i, currentPrice, p, db, lp, creds)

\* The part of the RealtimeFetcher that subscribe() and unsubscribe() change.
FetcherSubs ==
    [subscribedSymbols |-> subscribedSymbols, tracked |-> tracked,
     messageId |-> messageId, sent |-> sent, fSent |-> <<>>]

\* ws.send() throws on a socket that is still CONNECTING
SendThrows == isConnected /\ ws # 0 /\ socks[ws].state = "connecting"

Sends(fs, msgs) ==
    [fs EXCEPT !.messageId = @ + Used(ws, msgs),
               !.sent = IF ws = 0 THEN @
                        ELSE [@ EXCEPT ![ws] = @ \o Written(ws, msgs)],
               !.fSent = @ \o Written(ws, msgs)]

\* RealtimeFetcher.subscribe(symbol)
subscribe(fs, symbol) ==
    LET added == [fs EXCEPT !.subscribedSymbols = SetAdd(@, symbol),
                            !.tracked = @ \cup {symbol}]
    IN IF isConnected /\ ws # 0
       THEN Sends(added, SubscribeMessages(symbol, fs.messageId))
       ELSE added

\* RealtimeFetcher.unsubscribe(symbol)
unsubscribe(fs, symbol) ==
    LET deleted == [fs EXCEPT !.subscribedSymbols = SetDelete(@, symbol),
                              !.tracked = @ \ {symbol}]
    IN IF isConnected /\ ws # 0
       THEN Sends(deleted, UnsubscribeMessages(symbol, fs.messageId))
       ELSE deleted

\* new Set(positions.map(p => p.symbol)), insertion ordered
RECURSIVE SymbolsOf(_)
SymbolsOf(rows) ==
    IF rows = <<>> THEN <<>>
    ELSE LET rest == SymbolsOf(Tail(rows))
         IN <<Head(rows).symbol>> \o SetDelete(rest, Head(rows).symbol)

\* the first loop of updateSubscriptions: subscribe to the required symbols
\* that are not subscribed; a subscribe() that throws leaves the tracker's
\* set as it was
RECURSIVE SubscribeNew(_, _)
SubscribeNew(u, required) ==
    IF required = <<>> THEN u
    ELSE LET symbol == Head(required)
         IN SubscribeNew(
              IF symbol \in Elements(u.own) THEN u
              ELSE [fs |-> subscribe(u.fs, symbol),
                    own |-> IF SendThrows THEN u.own
                            ELSE Append(u.own, symbol)],
              Tail(required))

\* the second loop: unsubscribe from the symbols no longer required
RECURSIVE UnsubscribeOld(_, _, _)
UnsubscribeOld(u, required, todo) ==
    IF todo = <<>> THEN u
    ELSE LET symbol == Head(todo)
         IN UnsubscribeOld(
              IF symbol \in Elements(required) THEN u
              ELSE [fs |-> unsubscribe(u.fs, symbol),
                    own |-> IF SendThrows THEN u.own
                            ELSE SetDelete(u.own, symbol)],
              required, Tail(todo))

\* updateSubscriptions() without its second loop
updateSubscriptionsNoUnsubscribe(db, fs, own) ==
    SubscribeNew([fs |-> fs, own |-> own],
                 SymbolsOf(getAllOpenPositions(db, "")))

\* PositionTracker.updateSubscriptions(): the fetcher's subscription state
\* and the tracker's own set afterwards
updateSubscriptions(db, fs, own) ==
    LET requiredSymbols == SymbolsOf(getAllOpenPositions(db, ""))
        u == SubscribeNew([fs |-> fs, own |-> own], requiredSymbols)
    IN UnsubscribeOld(u, requiredSymbols, u.own)

\* the loop of stop(): unsubscribe from every subscribed symbol
RECURSIVE UnsubscribeAll(_, _)
UnsubscribeAll(fs, todo) ==
    IF todo = <<>> THEN fs
    ELSE UnsubscribeAll(unsubscribe(fs, Head(todo)), Tail(todo))

\* the fetcher after those subscribe / unsubscribe calls
SetFetcherSubs(fs) ==
    /\ fs.messageId <= MaxTrackerMessageId + 1
    /\ subscribedSymbols' = fs.subscribedSymbols
    /\ tracked' = fs.tracked
    /\ messageId' = fs.messageId
    /\ sent' = fs.sent
    /\ fSent' = fs.fSent

FreeSlots(ts) == {t \in TaskSlots : ts[t] = NoTask}

\* k new suspended calls, each in the lowest free slot
RECURSIVE Spawn(_, _, _)
Spawn(ts, task, k) ==
    IF k = 0 THEN ts
    ELSE LET t == CHOOSE t \in FreeSlots(ts) :
                     \A o \in FreeSlots(ts) : t <= o
         IN Spawn([ts EXCEPT ![t] = task], task, k - 1)

RECURSIVE Repeat(_, _)
Repeat(seq, k) == IF k = 0 THEN <<>> ELSE seq \o Repeat(seq, k - 1)

\* the rest of a suspended call `task` in slot t after its REST call has
\* returned: `pre` was emitted on return, r is the loop from there on, db the
\* positions table by then
Proceed(t, task, r, db, pre) ==
    /\ tasks' = [tasks EXCEPT ![t] =
                    IF r.pc = "done" THEN NoTask
                    ELSE [task EXCEPT !.pc = r.pc, !.i = r.i,
                                      !.price = r.price]]
    /\ tEmitted' = pre \o r.events
    /\ tCalled' = r.called
    /\ IF task.kind = "sweep" /\ r.pc = "done"
       THEN \* await this.updateSubscriptions()
            LET u == updateSubscriptions(db, FetcherSubs, ptSubscribedSymbols)
            IN SetFetcherSubs(u.fs) /\ ptSubscribedSymbols' = u.own
       ELSE /\ fSent' = <<>>
            /\ UNCHANGED <<subscribedSymbols, tracked, messageId, sent,
                           ptSubscribedSymbols>>
    /\ fEmitted' = <<>>
    /\ UNCHANGED <<ws, socks, isConnected, reconnectTimeout, timers, crashed,
                   stopped>>
    /\ UNCHANGED <<scalperVars, streamVars, analyzerVars>>

(***************************************************************************)
(* PositionTracker: operations                                             *)
(***************************************************************************)
\* start()
Start ==
    /\ IF isRunning
       THEN /\ fSent' = <<>>
            /\ UNCHANGED <<isRunning, listeners, checkInterval,
                           ptSubscribedSymbols, subscribedSymbols, tracked,
                           messageId, sent>>
       ELSE /\ listeners < MaxListeners
            /\ isRunning' = TRUE
            \* realtimeFetcher.on('price', this.handlePriceUpdate.bind(this))
            /\ listeners' = listeners + 1
            /\ checkInterval' = TRUE
            /\ LET u == updateSubscriptions(positions, FetcherSubs,
                                            ptSubscribedSymbols)
               IN SetFetcherSubs(u.fs) /\ ptSubscribedSymbols' = u.own
    /\ tEmitted' = <<>>
    /\ tCalled' = <<>>
    /\ fEmitted' = <<>>
    /\ UNCHANGED <<lastPrices, positions, hasCredentials, tasks, exitOrders,
                   streamed>>
    /\ UNCHANGED <<ws, socks, isConnected, reconnectTimeout, timers, crashed,
                   stopped>>
    /\ UNCHANGED <<scalperVars, streamVars, analyzerVars>>

\* stop()
Stop ==
    /\ isRunning' = FALSE
    /\ checkInterval' = FALSE
    \* realtimeFetcher.off('price', this.handlePriceUpdate.bind(this)): bind
    \* makes a new function, which is not a registered listener, so off()
    \* removes nothing
    /\ UNCHANGED listeners
    /\ SetFetcherSubs(UnsubscribeAll(FetcherSubs, ptSubscribedSymbols))
    /\ ptSubscribedSymbols' = <<>>
    /\ tEmitted' = <<>>
    /\ tCalled' = <<>>
    /\ fEmitted' = <<>>
    /\ UNCHANGED <<lastPrices, positions, hasCredentials, tasks, exitOrders,
                   streamed>>
    /\ UNCHANGED <<ws, socks, isConnected, reconnectTimeout, timers, crashed,
                   stopped>>
    /\ UNCHANGED <<scalperVars, streamVars, analyzerVars>>

\* A trade of `symbol` at `price` arrives from the stream: handleTradeActivity
\* emits 'trade' and 'price', and every registered handlePriceUpdate runs up
\* to its first REST call.
PriceEvent(symbol, price) ==
    /\ \E s \in Sockets : socks[s].state \in {"open", "closing"}
    /\ LET snapshot == getAllOpenPositions(positions, symbol)
           lp == [lastPrices EXCEPT ![symbol] = price]
           r == RunLoop("price", snapshot, 1, price, positions, lp,
                        hasCredentials)
           task == [kind |-> "price", pc |-> r.pc, price |-> r.price,
                    snapshot |-> snapshot, i |-> r.i]
           k == IF isRunning THEN listeners ELSE 0
       IN /\ lastPrices' = IF k > 0 THEN lp ELSE lastPrices
          /\ streamed' = IF k > 0 THEN streamed \cup {symbol} ELSE streamed
          /\ IF r.pc = "done" THEN UNCHANGED tasks
             ELSE /\ Cardinality(FreeSlots(tasks)) >= k
                  /\ tasks' = Spawn(tasks, task, k)
          /\ tEmitted' = Repeat(r.events, k)
          /\ tCalled' = Repeat(r.called, k)
    /\ fEmitted' = <<"trade", "price">>
    /\ fSent' = <<>>
    /\ UNCHANGED <<isRunning, checkInterval, listeners, ptSubscribedSymbols,
                   positions, hasCredentials, exitOrders>>
    /\ UNCHANGED <<ws, socks, sent, isConnected, messageId, subscribedSymbols,
                   reconnectTimeout, timers, crashed, stopped, tracked>>
    /\ UNCHANGED <<scalperVars, streamVars, analyzerVars>>

\* The 5s timer fires: checkAllPositions() up to its first REST call.
SweepFire ==
    /\ checkInterval
    /\ IF ~isRunning
       THEN /\ tEmitted' = <<>>
            /\ tCalled' = <<>>
            /\ fSent' = <<>>
            /\ fEmitted' = <<>>
            /\ UNCHANGED <<tasks, ptSubscribedSymbols, subscribedSymbols,
                           tracked, messageId, sent, streamed>>
            /\ UNCHANGED <<ws, socks, isConnected, reconnectTimeout, timers,
                           crashed, stopped>>
            /\ UNCHANGED <<scalperVars, streamVars, analyzerVars>>
       ELSE LET snapshot == getAllOpenPositions(positions, "")
                r == RunLoop("sweep", snapshot, 1, 0, positions, lastPrices,
                             hasCredentials)
                t == CHOOSE t \in FreeSlots(tasks) :
                        \A o \in FreeSlots(tasks) : t <= o
            IN /\ FreeSlots(tasks) # {}
               /\ streamed' = {}
               /\ Proceed(t, [NoTask EXCEPT !.kind = "sweep",
                                            !.snapshot = snapshot],
                          r, positions, <<>>)
    /\ UNCHANGED <<isRunning, checkInterval, listeners, lastPrices, positions,
                   hasCredentials, exitOrders>>

\* indodax.fetchTicker of the sweep in slot t returns `price`
TickerResolve(t, price) ==
    /\ tasks[t].pc = "ticker"
    /\ LET task == tasks[t]
           lp == [lastPrices EXCEPT ![task.snapshot[task.i].symbol] = price]
       IN /\ lastPrices' = lp
          /\ Proceed(t, task,
                     CheckFrom(task.kind, task.snapshot, task.i, price, 0,
                               positions, lp, hasCredentials),
                     positions, <<>>)
    /\ UNCHANGED <<isRunning, checkInterval, listeners, positions,
                   hasCredentials, exitOrders, streamed>>

\* indodax.fetchTicker of the sweep in slot t throws: continue
TickerReject(t) ==
    /\ tasks[t].pc = "ticker"
    /\ LET task == tasks[t]
       IN Proceed(t, task,
                  RunLoop(task.kind, task.snapshot, task.i + 1, 0, positions,
                          lastPrices, hasCredentials),
                  positions, <<>>)
    /\ UNCHANGED <<isRunning, checkInterval, listeners, lastPrices, positions,
                   hasCredentials, exitOrders, streamed>>

\* exchange.createOrder of the closePosition() in slot t returns: the exit
\* order is on the exchange, the row is closed, closePosition() returns
\* success and checkPosition emits position:auto_closed
CloseResolve(t) ==
    /\ tasks[t].pc = "closing"
    /\ LET task == tasks[t]
           id == task.snapshot[task.i].id
           db == closePositionRow(positions, id)
       IN /\ exitOrders[id] < MaxOrders
          /\ exitOrders' = [exitOrders EXCEPT ![id] = @ + 1]
          /\ positions' = db
          /\ Proceed(t, task,
                     RunLoop(task.kind, task.snapshot, task.i + 1, task.price,
                             db, lastPrices, hasCredentials),
                     db, <<TrackerEvent("position:auto_closed", id)>>)
    /\ UNCHANGED <<isRunning, checkInterval, listeners, lastPrices,
                   hasCredentials, streamed>>

\* exchange.createOrder throws: closePosition() returns success: false and
\* checkPosition emits position:close_failed
CloseReject(t) ==
    /\ tasks[t].pc = "closing"
    /\ LET task == tasks[t]
           id == task.snapshot[task.i].id
       IN Proceed(t, task,
                  RunLoop(task.kind, task.snapshot, task.i + 1, task.price,
                          positions, lastPrices, hasCredentials),
                  positions, <<TrackerEvent("position:close_failed", id)>>)
    /\ UNCHANGED <<isRunning, checkInterval, listeners, lastPrices, positions,
                   hasCredentials, exitOrders, streamed>>

\* the tracker as constructed, with an empty positions table
TrackerIdle ==
    /\ isRunning = FALSE
    /\ checkInterval = FALSE
    /\ listeners = 0
    /\ ptSubscribedSymbols = <<>>
    /\ lastPrices = [s \in Symbols |-> 0]
    /\ positions = <<>>
    /\ hasCredentials = TRUE
    /\ tasks = [t \in TaskSlots |-> NoTask]
    /\ exitOrders = <<>>
    /\ streamed = {}
    /\ tCalled = <<>>
    /\ tEmitted = <<>>

\* The scalp worker of the bot subscribes a symbol on the shared fetcher:
\* realtimeFetcher.subscribe(symbol) in the loop over its symbols.
ScalpSubscribe(symbol) ==
    /\ SetFetcherSubs(subscribe(FetcherSubs, symbol))
    /\ tEmitted' = <<>>
    /\ tCalled' = <<>>
    /\ fEmitted' = <<>>
    /\ UNCHANGED <<isRunning, listeners, checkInterval, ptSubscribedSymbols,
                   lastPrices, positions, hasCredentials, tasks, exitOrders,
                   streamed>>
    /\ UNCHANGED <<ws, socks, isConnected, reconnectTimeout, timers, crashed,
                   stopped>>
    /\ UNCHANGED <<scalperVars, streamVars, analyzerVars>>

\* the fetcher after connect() has resolved: socket 1 open and authenticated
FetcherConnected ==
    /\ ws = 1
    /\ socks = [s \in Sockets |->
                  IF s = 1 THEN [NoSocket EXCEPT !.state = "open",
                                                 !.promise = "resolved"]
                  ELSE NoSocket]
    /\ sent = [s \in Sockets |-> IF s = 1 THEN <<AuthMessage(1)>> ELSE <<>>]
    /\ isConnected = TRUE
    /\ messageId = 2
    /\ subscribedSymbols = <<>>
    /\ reconnectTimeout = "null"
    /\ timers = [handle |-> 0, orphans |-> 0]
    /\ crashed = FALSE
    /\ stopped = FALSE
    /\ tracked = {}
    /\ fSent = <<>>
    /\ fEmitted = <<"connected">>

\* The tracker as constructed, the fetcher connected, and one or two open
\* positions in the table.
TrackerInit ==
    /\ ScalperInit
    /\ FetcherConnected
    /\ StreamInit
    /\ AnalyzerInit
    /\ isRunning = FALSE
    /\ checkInterval = FALSE
    /\ listeners = 0
    /\ ptSubscribedSymbols = <<>>
    /\ lastPrices = [s \in Symbols |-> 0]
    /\ positions \in PositionTables
    /\ exitOrders = [id \in DOMAIN positions |-> 0]
    /\ streamed = {}
    /\ hasCredentials \in BOOLEAN
    /\ tasks = [t \in TaskSlots |-> NoTask]
    /\ tCalled = <<>>
    /\ tEmitted = <<>>

\* The symbols the scalp worker runs on; it subscribes them when it starts
\* and never unsubscribes them.
WorkerSymbols == {"BTC/IDR"}

\* The tracker as constructed on a fetcher that the scalp worker has already
\* connected and subscribed to its symbol.
SharedInit ==
    /\ ScalperInit
    /\ StreamInit
    /\ AnalyzerInit
    /\ ws = 1
    /\ socks = [s \in Sockets |->
                  IF s = 1 THEN [NoSocket EXCEPT !.state = "open",
                                                 !.promise = "resolved"]
                  ELSE NoSocket]
    /\ sent = [s \in Sockets |->
                 IF s = 1 THEN <<AuthMessage(1)>> \o
                               SubscribeMessages("BTC/IDR", 2)
                 ELSE <<>>]
    /\ isConnected = TRUE
    /\ messageId = 4
    /\ subscribedSymbols = <<"BTC/IDR">>
    /\ reconnectTimeout = "null"
    /\ timers = [handle |-> 0, orphans |-> 0]
    /\ crashed = FALSE
    /\ stopped = FALSE
    /\ tracked = {"BTC/IDR"}
    /\ fSent = <<>>
    /\ fEmitted = <<>>
    /\ isRunning = FALSE
    /\ checkInterval = FALSE
    /\ listeners = 0
    /\ ptSubscribedSymbols = <<>>
    /\ lastPrices = [s \in Symbols |-> 0]
    /\ positions \in PositionTables
    /\ exitOrders = [id \in DOMAIN positions |-> 0]
    /\ streamed = {}
    /\ hasCredentials \in BOOLEAN
    /\ tasks = [t \in TaskSlots |-> NoTask]
    /\ tCalled = <<>>
    /\ tEmitted = <<>>

SharedNext ==
    \/ Start
    \/ Stop
    \/ SweepFire
    \/ \E t \in TaskSlots, price \in Prices : TickerResolve(t, price)
    \/ \E t \in TaskSlots : TickerReject(t)
    \/ \E t \in TaskSlots : CloseResolve(t)
    \/ \E t \in TaskSlots : CloseReject(t)
    \/ \E symbol \in WorkerSymbols : ScalpSubscribe(symbol)

TrackerNext ==
    \/ Start
    \/ Stop
    \/ \E symbol \in Symbols, price \in Prices : PriceEvent(symbol, price)
    \/ SweepFire
    \/ \E t \in TaskSlots, price \in Prices : TickerResolve(t, price)
    \/ \E t \in TaskSlots : TickerReject(t)
    \/ \E t \in TaskSlots : CloseResolve(t)
    \/ \E t \in TaskSlots : CloseReject(t)

(***************************************************************************)
(* RealtimeFetcher: market data (trade buffer, price cache, candles)       *)
(***************************************************************************)
BUFFER_CAPACITY == 100
CANDLE_EVERY == 10

\* parseFloat(undefined)
NaN == 0

\* A row of a trade-activity message: a well-formed 7-tuple with its price,
\* an array that is too short ("short"), or null ("null").
FlowRow(price, side, volumeIdr) ==
    [kind |-> "trade", price |-> price, side |-> side,
     volumeIdr |-> volumeIdr]
TradeRow(price) == FlowRow(price, "buy", 1)
ShortRow == [kind |-> "short", price |-> 0, side |-> "undefined",
             volumeIdr |-> 0]
NullRow == [kind |-> "null", price |-> 0, side |-> "undefined",
            volumeIdr |-> 0]

\* The TradeData built from a row; seq is the arrival number of the trade
\* for its symbol and stands for the identity of the object.  The fields of
\* a short row are parseFloat(undefined).
TradeData(row, n) ==
    [seq |-> n, price |-> IF row.kind = "trade" THEN row.price ELSE NaN,
     side |-> row.side,
     volumeIdr |-> IF row.kind = "trade" THEN row.volumeIdr ELSE NaN]

\* A data.data of an order-book message: levels with price, the volume
\* field of the pair and idr_volume; "ask" or "bid" may be missing.
WireLevel(p, v, idr) == [price |-> p, base_volume |-> v, idr_volume |-> idr]

WireBooks ==
    {[hasData |-> TRUE, ask |-> <<WireLevel(100100, 2, 200200)>>,
      bid |-> <<WireLevel(99900, 1, 99900)>>],
     [hasData |-> TRUE, ask |-> <<>>,
      bid |-> <<WireLevel(99800, 3, 299400), WireLevel(99700, 1, 99700)>>],
     [hasData |-> FALSE, ask |-> <<>>, bid |-> <<>>]}

ParseLevels(levels) ==
    [i \in DOMAIN levels |->
        [price |-> levels[i].price, volume |-> levels[i].base_volume,
         volumeIdr |-> levels[i].idr_volume]]

\* the OrderBookData handleOrderBook builds
Snapshot(wire) ==
    [present |-> TRUE, asks |-> ParseLevels(wire.ask),
     bids |-> ParseLevels(wire.bid)]

\* the market data of one symbol: cache entry, buffer, counters, and the
\* events emitted so far in the turn
StreamOf(symbol) ==
    [cache |-> priceCache[symbol], buffer |-> tradeBuffer[symbol],
     received |-> received[symbol], candles |-> candles[symbol],
     events |-> <<>>]

RECURSIVE MaxPrice(_)
\* Math.max(...prices)
MaxPrice(trades) ==
    IF Len(trades) = 1 THEN trades[1].price
    ELSE Max(Head(trades).price, MaxPrice(Tail(trades)))

RECURSIVE MinPrice(_)
\* Math.min(...prices)
MinPrice(trades) ==
    IF Len(trades) = 1 THEN trades[1].price
    ELSE Min(Head(trades).price, MinPrice(Tail(trades)))

\* The priceRecord saveTradeToDb(symbol, trade) inserts, for a buffer of at
\* least two trades; `of` and `closing` are history: the trades the open,
\* high and low were taken from, and the trade the close was taken from.
saveTradeToDb(buffer, trade) ==
    LET recentTrades == SubSeq(buffer, Max(1, Len(buffer) - 9), Len(buffer))
    IN [open |-> recentTrades[1].price,
        high |-> MaxPrice(recentTrades),
        low |-> MinPrice(recentTrades),
        close |-> trade.price,
        of |-> {recentTrades[i].seq : i \in DOMAIN recentTrades},
        closing |-> trade.seq]

\* updatePriceCache(symbol, trade), then saveTradeToDb when the buffer, as
\* it is before this trade is pushed, holds a multiple of 10 trades
updatePriceCache(st, trade) ==
    [st EXCEPT
       !.cache = [present |-> TRUE, price |-> trade.price,
                  orderBook |-> st.cache.orderBook],
       !.events = @ \o <<"price">>,
       !.candles = IF /\ st.buffer # <<>>
                      /\ Len(st.buffer) % CANDLE_EVERY = 0
                      /\ ~(Len(st.buffer) < 2)
                   THEN Append(@, saveTradeToDb(st.buffer, trade)) ELSE @]

\* the push without the eviction
BufferedNoEviction(buffer, trade) == Append(buffer, trade)

\* buffer.push(tradeData); if (buffer.length > 100) buffer.shift()
Buffered(buffer, trade) ==
    LET pushed == Append(buffer, trade)
    IN IF Len(pushed) > BUFFER_CAPACITY THEN Tail(pushed) ELSE pushed

\* The loop of handleTradeActivity over the rows of a message.  A null row
\* throws (trade[1] of null) into the catch of handleMessage: the rows
\* before it have been handled, the rest is dropped.
RECURSIVE HandleRows(_, _)
HandleRows(st, rows) ==
    IF rows = <<>> \/ Head(rows).kind = "null" THEN st
    ELSE LET trade == TradeData(Head(rows), st.received + 1)
             emitted == [st EXCEPT !.events = @ \o <<"trade">>]
             cached == updatePriceCache(emitted, trade)
         IN HandleRows([cached EXCEPT
                          !.buffer = Buffered(@, trade),
                          !.received = @ + 1],
                       Tail(rows))

\* handleMessage of a trade-activity message for `symbol` on socket s, when
\* no 'price' listener is registered (PriceEvent is the listeners' side)
TradeMessage(s, symbol, rows) ==
    /\ ~crashed
    /\ socks[s].state \in {"open", "closing"}
    /\ listeners = 0
    /\ LET st == HandleRows(StreamOf(symbol), rows)
       IN /\ priceCache' = [priceCache EXCEPT ![symbol] = st.cache]
          /\ tradeBuffer' = [tradeBuffer EXCEPT ![symbol] = st.buffer]
          /\ received' = [received EXCEPT ![symbol] = st.received]
          /\ candles' = [candles EXCEPT ![symbol] = st.candles]
          /\ fEmitted' = st.events
    /\ fSent' = <<>>
    /\ UNCHANGED <<ws, socks, sent, isConnected, messageId, subscribedSymbols,
                   reconnectTimeout, timers, crashed, stopped, tracked>>
    /\ UNCHANGED <<scalperVars, trackerVars, analyzerVars>>

\* handleMessage of an order-book message for `symbol` on socket s
OrderBookMessage(s, symbol, wire) ==
    /\ ~crashed
    /\ socks[s].state \in {"open", "closing"}
    /\ IF ~wire.hasData
       THEN fEmitted' = <<>> /\ UNCHANGED priceCache
       ELSE /\ fEmitted' = <<"orderbook">>
            /\ priceCache' =
                  IF priceCache[symbol].present
                  THEN [priceCache EXCEPT ![symbol].orderBook = Snapshot(wire)]
                  ELSE priceCache
    /\ fSent' = <<>>
    /\ UNCHANGED <<tradeBuffer, received, candles>>
    /\ UNCHANGED <<ws, socks, sent, isConnected, messageId, subscribedSymbols,
                   reconnectTimeout, timers, crashed, stopped, tracked>>
    /\ UNCHANGED <<scalperVars, trackerVars, analyzerVars>>

\* handleMessage of data that is not JSON: JSON.parse throws into the catch
GarbageMessage(s) ==
    /\ ~crashed
    /\ socks[s].state \in {"open", "closing"}
    /\ fEmitted' = <<>>
    /\ fSent' = <<>>
    /\ UNCHANGED <<ws, socks, sent, isConnected, messageId, subscribedSymbols,
                   reconnectTimeout, timers, crashed, stopped, tracked>>
    /\ UNCHANGED <<scalperVars, trackerVars, streamVars, analyzerVars>>

\* getTrades(symbol, limit): buffer.slice(-limit), in arrival order
getTrades(buffer, limit) ==
    SubSeq(buffer, Max(1, Len(buffer) - limit + 1), Len(buffer))

\* array.slice(from, to)
Slice(array, from, to) == SubSeq(array, from + 1, Min(to, Len(array)))

RECURSIVE SumPrices(_)
SumPrices(trades) ==
    IF trades = <<>> THEN 0 ELSE Head(trades).price + SumPrices(Tail(trades))

RECURSIVE SumIdr(_)
SumIdr(trades) ==
    IF trades = <<>> THEN 0 ELSE Head(trades).volumeIdr + SumIdr(Tail(trades))

\* priceMomentum of analyzeRealtimeMomentum as the fraction num / den of a
\* percent times 100: (avgLast - avgFirst) / avgFirst, 0 when avgFirst is
\* not positive
priceMomentum(trades) ==
    LET firstFive == Slice(trades, 15, 20)
        lastFive == Slice(trades, 0, 5)
        nF == Len(firstFive)
        nL == Len(lastFive)
    IN IF nF = 0 \/ nL = 0 \/ SumPrices(firstFive) <= 0
       THEN [num |-> 0, den |-> 1]
       ELSE [num |-> SumPrices(lastFive) * nF - SumPrices(firstFive) * nL,
             den |-> SumPrices(firstFive) * nL]

\* analyzeRealtimeMomentum on the trades getTrades(symbol, 30) returned;
\* score in hundredths, rounded down
analyzeRealtimeMomentum(trades) ==
    LET recentTrades == Slice(trades, 0, 20)
        buys == SelectSeq(recentTrades, LAMBDA t : t.side = "buy")
        sells == SelectSeq(recentTrades, LAMBDA t : t.side # "buy")
        buyVolume == SumIdr(buys)
        sellVolume == SumIdr(sells)
        buyCount == Len(buys)
        sellCount == Len(sells)
        totalVolume == buyVolume + sellVolume
        \* buyRatio = totalVolume > 0 ? buyVolume / totalVolume : 0.5
        ratio == IF totalVolume > 0
                 THEN [num |-> buyVolume, den |-> totalVolume]
                 ELSE [num |-> 1, den |-> 2]
        m == priceMomentum(trades)
        \* (buyRatio - 0.5) * 0.6 and (0.5 - buyRatio) * 0.6
        overHalf == (60 * ratio.num - 30 * ratio.den) \div ratio.den
        underHalf == (30 * ratio.den - 60 * ratio.num) \div ratio.den
        \* Math.abs(priceMomentum) * 2
        twice == (20000 * Abs(m.num)) \div m.den
    IN IF Len(trades) < 10
       THEN [signal |-> "neutral", score |-> 0, reason |-> ""]
       ELSE IF 100 * ratio.num > 65 * ratio.den /\ 2000 * m.num > m.den
       THEN [signal |-> "long", score |-> Min(30, overHalf + twice),
             reason |-> "Strong buy flow"]
       ELSE IF 100 * ratio.num < 35 * ratio.den /\ 2000 * m.num < -m.den
       THEN [signal |-> "short", score |-> Min(30, underHalf + twice),
             reason |-> "Strong sell flow"]
       ELSE IF 2 * buyCount < sellCount /\ 2 * buyVolume > 3 * sellVolume
       THEN [signal |-> "long", score |-> 20,
             reason |-> "Large buy orders detected"]
       ELSE IF 2 * sellCount < buyCount /\ 2 * sellVolume > 3 * buyVolume
       THEN [signal |-> "short", score |-> 20,
             reason |-> "Large sell orders detected"]
       ELSE [signal |-> "neutral", score |-> 0, reason |-> ""]

\* the fetcher connected, nothing received yet, no listener registered
ConnectedInit ==
    /\ ScalperInit
    /\ FetcherConnected
    /\ TrackerIdle
    /\ StreamInit
    /\ AnalyzerInit

\* Long runs of well-formed trades of one symbol, in messages of one or two
\* rows, past the capacity of the buffer.
BufferNext ==
    \E s \in Sockets, n \in 1..2 :
       /\ received["BTC/IDR"] + n <= MaxTrades
       /\ TradeMessage(s, "BTC/IDR", [i \in 1..n |-> TradeRow(100000)])

\* the rows of the messages of StreamNext
StreamRows == {TradeRow(100000), TradeRow(100300), ShortRow, NullRow}

\* Short runs of messages of every kind for two symbols.
StreamNext ==
    \/ \E s \in Sockets, symbol \in Symbols, n \in 0..2 :
          \E rows \in [1..n -> StreamRows] :
             /\ received[symbol] + n <= MaxStreamTrades
             /\ TradeMessage(s, symbol, rows)
    \/ \E s \in Sockets, symbol \in Symbols, wire \in WireBooks :
          OrderBookMessage(s, symbol, wire)
    \/ \E s \in Sockets : GarbageMessage(s)

(***************************************************************************)
(* OrderBookAnalyzer: analyze(), detectWalls().  Volumes are integers; a   *)
(* ratio is kept as a fraction [num, den] with den > 0.                    *)
(***************************************************************************)
MaxVolume == 60
MaxSnapshots == 1

\* wallThresholds, in percent of the total depth of the side
WALL_WEAK == 2
WALL_MEDIUM == 5
WALL_STRONG == 10
WALL_MASSIVE == 20

\* return walls.slice(0, 5)
TOP_WALLS == 5

BandVolumes == {1, 3, 5, 9}

\* One side of a book as fetchOrderBook returns it, [price, volume] pairs
\* from the best price outwards: empty, one level, two levels, two levels
\* at one price, or two levels before a level holding the bulk of the side.
Side(p1, p2, p3) ==
    {<<>>}
    \cup {<<<<p1, v>>>> : v \in BandVolumes}
    \cup {<<<<p1, v>>, <<p1, v>>>> : v \in BandVolumes}
    \cup {<<<<p1, v>>, <<p2, w>>>> : v \in BandVolumes, w \in BandVolumes}
    \cup {<<<<p1, v>>, <<p2, w>>, <<p3, MaxVolume>>>> :
             v \in BandVolumes, w \in BandVolumes}

RestBooks ==
    [bids : Side(99900, 99800, 99000), asks : Side(100100, 100200, 101000)]

\* convertFromWebSocket(wsBook)
convertFromWebSocket(wsBook) ==
    [bids |-> [i \in DOMAIN wsBook.bids |->
                  <<wsBook.bids[i].price, wsBook.bids[i].volume>>],
     asks |-> [i \in DOMAIN wsBook.asks |->
                  <<wsBook.asks[i].price, wsBook.asks[i].volume>>]]

RECURSIVE SumVolume(_)
\* orders.reduce((sum, [, volume]) => sum + volume, 0)
SumVolume(orders) ==
    IF orders = <<>> THEN 0 ELSE Head(orders)[2] + SumVolume(Tail(orders))

\* the imbalance without the totalDepth > 0 test
imbalanceUnguarded(bidDepth, askDepth) ==
    [num |-> bidDepth - askDepth, den |-> bidDepth + askDepth]

\* totalDepth > 0 ? (bidDepth - askDepth) / totalDepth : 0
imbalance(bidDepth, askDepth) ==
    IF bidDepth + askDepth > 0
    THEN [num |-> bidDepth - askDepth, den |-> bidDepth + askDepth]
    ELSE [num |-> 0, den |-> 1]

\* Math.round(price / (price * 0.001)) * (price * 0.001): the step is 0.1%
\* of the price itself (kept in thousandths), so the quotient rounds to
\* 1000 for every positive price and the key is the price.
roundedPrice(price) ==
    LET stepThousandths == price
        quotient == (2 * price * 1000 + stepThousandths)
                       \div (2 * stepThousandths)
    IN IF price = 0 THEN NaN
       ELSE (quotient * stepThousandths) \div 1000

RECURSIVE priceGroups(_, _)
\* The Map of volume per rounded price, in insertion order.
priceGroups(groups, orders) ==
    IF orders = <<>> THEN groups
    ELSE LET price == roundedPrice(Head(orders)[1])
             volume == Head(orders)[2]
             hit == {i \in DOMAIN groups : groups[i].price = price}
         IN priceGroups(
               IF hit = {}
               THEN Append(groups, [price |-> price, volume |-> volume])
               ELSE [i \in DOMAIN groups |->
                       IF i \in hit
                       THEN [groups[i] EXCEPT !.volume = @ + volume]
                       ELSE groups[i]],
               Tail(orders))

\* the classification with the tests for strong and weak exchanged
wallStrengthSwapped(volume, totalDepth) ==
    LET ratio == IF totalDepth > 0 THEN volume * 100 ELSE 0
        depth == IF totalDepth > 0 THEN totalDepth ELSE 1
    IN IF ratio >= WALL_MASSIVE * depth THEN "massive"
       ELSE IF ratio >= WALL_STRONG * depth THEN "weak"
       ELSE IF ratio >= WALL_MEDIUM * depth THEN "medium"
       ELSE IF ratio >= WALL_WEAK * depth THEN "strong"
       ELSE "none"

\* volumeRatio = totalDepth > 0 ? volume / totalDepth : 0, and the tier of
\* the first threshold it reaches, from massive down; "none" is null
wallStrength(volume, totalDepth) ==
    LET ratio == IF totalDepth > 0 THEN volume * 100 ELSE 0
        depth == IF totalDepth > 0 THEN totalDepth ELSE 1
    IN IF ratio >= WALL_MASSIVE * depth THEN "massive"
       ELSE IF ratio >= WALL_STRONG * depth THEN "strong"
       ELSE IF ratio >= WALL_MEDIUM * depth THEN "medium"
       ELSE IF ratio >= WALL_WEAK * depth THEN "weak"
       ELSE "none"

strengthOrder(strength) ==
    CASE strength = "massive" -> 0
      [] strength = "strong" -> 1
      [] strength = "medium" -> 2
      [] strength = "weak" -> 3

\* the comparator of walls.sort is negative; distance is
\* |percentFromPrice| * midPrice / 50
WallBefore(a, b) ==
    IF strengthOrder(a.strength) # strengthOrder(b.strength)
    THEN strengthOrder(a.strength) < strengthOrder(b.strength)
    ELSE Abs(a.distance) < Abs(b.distance)

\* w placed before the first wall it sorts before (the sort is stable)
InsertWall(sorted, w) ==
    LET later == {i \in DOMAIN sorted : WallBefore(w, sorted[i])}
        at == IF later = {} THEN Len(sorted) + 1
              ELSE CHOOSE i \in later : \A j \in later : i <= j
    IN SubSeq(sorted, 1, at - 1) \o <<w>> \o SubSeq(sorted, at, Len(sorted))

RECURSIVE SortWalls(_, _)
SortWalls(sorted, walls) ==
    IF walls = <<>> THEN sorted
    ELSE SortWalls(InsertWall(sorted, Head(walls)), Tail(walls))

\* detectWalls(orders, totalDepth, currentPrice, type); mid2 is twice the
\* currentPrice, and distance is twice (price - currentPrice), or 0 when
\* currentPrice is not positive
detectWalls(orders, totalDepth, mid2, type) ==
    LET groups == priceGroups(<<>>, orders)
        all == [i \in DOMAIN groups |->
                  [price |-> groups[i].price, volume |-> groups[i].volume,
                   type |-> type,
                   strength |-> wallStrength(groups[i].volume, totalDepth),
                   distance |-> IF mid2 > 0
                                THEN 2 * groups[i].price - mid2 ELSE 0]]
        IsWall(w) == w.strength # "none"
        walls == SortWalls(<<>>, SelectSeq(all, IsWall))
    IN SubSeq(walls, 1, Min(TOP_WALLS, Len(walls)))

\* whaleThreshold, in percent of the depth of the side
WHALE_THRESHOLD == 10

\* detectWhales(bids, asks, bidDepth, askDepth)
detectWhales(bids, asks, bidDepth, askDepth) ==
    IF \E i \in DOMAIN bids : 100 * bids[i][2] > bidDepth * WHALE_THRESHOLD
    THEN "buy"
    ELSE IF \E i \in DOMAIN asks :
               100 * asks[i][2] > askDepth * WHALE_THRESHOLD
         THEN "sell"
         ELSE "none"

\* Math.min(0.2, spreadPercent * 0.1), in ten-thousandths
spreadPenalty(spreadPercent) ==
    IF spreadPercent.num >= 2 * spreadPercent.den THEN 2000
    ELSE (spreadPercent.num \div spreadPercent.den) * 1000
         + ((spreadPercent.num % spreadPercent.den) * 1000)
              \div spreadPercent.den

\* generateSignal(imbalance, spreadPercent, whaleActivity, bidAskRatio);
\* scores and confidence in ten-thousandths, ratios as fractions
generateSignal(imb, spreadPercent, whaleActivity, bidAskRatio) ==
    LET imbBull == IF 5 * imb.num > imb.den THEN 4000
                   ELSE IF 10 * imb.num > imb.den THEN 2000 ELSE 0
        imbBear == IF 10 * imb.num > imb.den THEN 0
                   ELSE IF 5 * imb.num < -imb.den THEN 4000
                   ELSE IF 10 * imb.num < -imb.den THEN 2000 ELSE 0
        whaleBull == IF whaleActivity = "buy" THEN 3000 ELSE 0
        whaleBear == IF whaleActivity = "sell" THEN 3000 ELSE 0
        n == bidAskRatio.num
        d == bidAskRatio.den
        ratioBull == IF 2 * n > 3 * d THEN 2000
                     ELSE IF 5 * n > 6 * d THEN 1000 ELSE 0
        ratioBear == IF 5 * n > 6 * d THEN 0
                     ELSE IF 100 * n < 67 * d THEN 2000
                     ELSE IF 100 * n < 83 * d THEN 1000 ELSE 0
        bullScore == imbBull + whaleBull + ratioBull
                        - spreadPenalty(spreadPercent)
        bearScore == imbBear + whaleBear + ratioBear
                        - spreadPenalty(spreadPercent)
        netScore == bullScore - bearScore
    IN IF netScore > 1500
       THEN [signal |-> "up", confidence |-> Min(9000, 5000 + netScore)]
       ELSE IF netScore < -1500
            THEN [signal |-> "down",
                  confidence |-> Min(9000, 5000 + Abs(netScore))]
            ELSE [signal |-> "neutral", confidence |-> 5000]

\* the spread, the whale flag and the bid/ask ratio of a book, and the
\* signal generateSignal makes of them
BookSignal(book) ==
    LET bidDepth == SumVolume(book.bids)
        askDepth == SumVolume(book.asks)
        bestBid == IF book.bids = <<>> THEN 0 ELSE book.bids[1][1]
        bestAsk == IF book.asks = <<>> THEN 0 ELSE book.asks[1][1]
        mid2 == bestBid + bestAsk
        spreadPercent == IF mid2 > 0
                         THEN [num |-> (bestAsk - bestBid) * 200, den |-> mid2]
                         ELSE [num |-> 0, den |-> 1]
        bidAskRatio == IF askDepth > 0
                       THEN [num |-> bidDepth, den |-> askDepth]
                       ELSE [num |-> 1, den |-> 1]
        whaleActivity == detectWhales(book.bids, book.asks, bidDepth, askDepth)
        s == generateSignal(imbalance(bidDepth, askDepth), spreadPercent,
                            whaleActivity, bidAskRatio)
    IN [bidAskRatio |-> bidAskRatio, whaleActivity |-> whaleActivity,
        signal |-> s.signal, confidence |-> s.confidence]

\* The OrderBookAnalysis of a book: depths, imbalance, twice the mid price,
\* spreadPercent as num / den, and the walls of both sides.
ObAnalysis(book) ==
    LET bidDepth == SumVolume(book.bids)
        askDepth == SumVolume(book.asks)
        bestBid == IF book.bids = <<>> THEN 0 ELSE book.bids[1][1]
        bestAsk == IF book.asks = <<>> THEN 0 ELSE book.asks[1][1]
        mid2 == bestBid + bestAsk
    IN [bidDepth |-> bidDepth, askDepth |-> askDepth,
        imbalance |-> imbalance(bidDepth, askDepth),
        mid2 |-> mid2,
        spreadPercent |-> IF mid2 > 0
                          THEN [num |-> (bestAsk - bestBid) * 200, den |-> mid2]
                          ELSE [num |-> 0, den |-> 1],
        buyWalls |-> detectWalls(book.bids, bidDepth, mid2, "buy"),
        sellWalls |-> detectWalls(book.asks, askDepth, mid2, "sell"),
        bidAskRatio |-> BookSignal(book).bidAskRatio,
        whaleActivity |-> BookSignal(book).whaleActivity,
        signal |-> BookSignal(book).signal,
        confidence |-> BookSignal(book).confidence]

\* the book analyze() works on: the cached snapshot when there is one
\* younger than cacheMaxAge, else the book the REST call returns
BookFor(symbol, fresh, rest) ==
    IF priceCache[symbol].present /\ priceCache[symbol].orderBook.present
       /\ fresh
    THEN convertFromWebSocket(priceCache[symbol].orderBook)
    ELSE rest

\* saveSnapshot(analysis)
Saved(symbol, book) ==
    [id |-> lastAnalysis.id + 1, symbol |-> symbol, book |-> book,
     analysis |-> ObAnalysis(book)]

\* orderBookAnalyzer.analyze(symbol) returning; `fresh` tells whether a
\* cached snapshot is younger than 5 s, `rest` is the REST book
ObAnalyze(symbol, fresh, rest) ==
    /\ lastAnalysis' = Saved(symbol, BookFor(symbol, fresh, rest))
    /\ UNCHANGED <<scalperVars, fetcherVars, trackerVars, streamVars>>

\* Analyses of REST books and of cached snapshots: a first trade creates
\* the cache entry, order-book messages fill it.
DepthNext ==
    \/ \E symbol \in ScalpSymbols, fresh \in BOOLEAN, rest \in RestBooks :
          /\ lastAnalysis.id < MaxSnapshots
          /\ ObAnalyze(symbol, fresh, rest)
    \/ \E s \in Sockets, symbol \in ScalpSymbols :
          /\ received[symbol] = 0
          /\ TradeMessage(s, symbol, <<TradeRow(100000)>>)
    \/ \E s \in Sockets, symbol \in ScalpSymbols, wire \in WireBooks :
          OrderBookMessage(s, symbol, wire)

\* Books whose levels lie within 0.03% of each other on each side: one,
\* two or three levels per side, every level of a side with one volume.
NarrowSide(p1, p2, p3) ==
    {<<<<p1, v>>>> : v \in BandVolumes}
    \cup {<<<<p1, v>>, <<p2, v>>>> : v \in BandVolumes}
    \cup {<<<<p1, v>>, <<p2, v>>, <<p3, v>>>> : v \in BandVolumes}

NarrowBooks ==
    [bids : NarrowSide(99990, 99980, 99970),
     asks : NarrowSide(100010, 100020, 100030)]

\* Analyses of REST books with narrow sides.
WallsNext ==
    \E symbol \in ScalpSymbols, rest \in NarrowBooks :
       /\ lastAnalysis.id < MaxSnapshots
       /\ ObAnalyze(symbol, FALSE, rest)

(***************************************************************************)
(* Scalper.analyze() from the return of the order-book await, with its     *)
(* contributions computed from their sources.  Scores are in hundredths.   *)
(***************************************************************************)
MaxAnalyses == 2

\* DEFAULT_CONFIG.minImbalance, in percent
MIN_IMBALANCE == 15
\* if (prices.length >= 20)
MIN_PRICES == 20
\* if (closes.length < 50) throw
MIN_POINTS == 50

\* indodax.fetchOrderBook rejects
FetchFails == [failed |-> TRUE]

\* REST books: empty; bids outweighing asks behind a wall next to the price
ScalpBooks ==
    {[bids |-> <<>>, asks |-> <<>>],
     [bids |-> <<<<99900, 9>>, <<99800, 1>>>>, asks |-> <<<<100100, 3>>>>]}

\* lengths of getLivePrices(symbol, 50)
PriceCounts == {10, 20, 49, 50}

\* results of technicalIndicators.calculate: neutral, oversold, overbought
Indicators ==
    {[rsi |-> 50, stochK |-> 50, stochD |-> 50,
      momentumSignal |-> "neutral", bollingerSignal |-> "neutral"],
     [rsi |-> 20, stochK |-> 15, stochD |-> 10,
      momentumSignal |-> "up", bollingerSignal |-> "up"],
     [rsi |-> 80, stochK |-> 85, stochD |-> 90,
      momentumSignal |-> "down", bollingerSignal |-> "down"]}

\* results of analyzeRealtimeMomentum, the boost of the volume spike and
\* the signal of analyzePriceAction
Flows ==
    {[momentum |-> "neutral", score |-> 0, boost |-> 0,
      priceAction |-> "neutral"],
     [momentum |-> "long", score |-> 30, boost |-> 20,
      priceAction |-> "long"]}

\* Math.abs(wall.percentFromPrice) < 0.5
NearPrice(w, mid2) == IF mid2 > 0 THEN Abs(w.distance) * 200 < mid2 ELSE TRUE

\* walls.find(w => w.strength !== 'weak') is near the price
NearWall(walls, mid2) ==
    LET strong == SelectSeq(walls, LAMBDA w : w.strength # "weak")
    IN strong # <<>> /\ NearPrice(strong[1], mid2)

\* 1. Order Book Analysis
BookScores(a) ==
    LET im == a.imbalance
        sp == a.spreadPercent
        tight == sp.num * 10 < sp.den
        wide == sp.num * 10 > 3 * sp.den
        both == IF tight THEN 10 ELSE IF wide THEN -15 ELSE 0
    IN [long |-> (IF im.num * 100 > MIN_IMBALANCE * im.den THEN 25 ELSE 0)
                 + (IF NearWall(a.buyWalls, a.mid2) THEN 20 ELSE 0) + both,
        short |-> (IF im.num * 100 > MIN_IMBALANCE * im.den THEN 0
                   ELSE IF im.num * 100 < -MIN_IMBALANCE * im.den THEN 25
                   ELSE 0)
                  + (IF NearWall(a.sellWalls, a.mid2) THEN 20 ELSE 0) + both]

\* 2. Technical Analysis
TechScores(ind) ==
    [long |-> (IF ind.rsi < 25 THEN 25 ELSE 0)
              + (IF ind.stochK < 20 /\ ind.stochK > ind.stochD THEN 20 ELSE 0)
              + (IF ind.momentumSignal = "up" THEN 15 ELSE 0)
              + (IF ind.bollingerSignal = "up" THEN 15 ELSE 0),
     short |-> (IF ind.rsi < 25 THEN 0 ELSE IF ind.rsi > 75 THEN 25 ELSE 0)
               + (IF ind.stochK < 20 /\ ind.stochK > ind.stochD THEN 0
                  ELSE IF ind.stochK > 80 /\ ind.stochK < ind.stochD THEN 20
                  ELSE 0)
               + (IF ind.momentumSignal = "down" THEN 15 ELSE 0)
               + (IF ind.bollingerSignal = "down" THEN 15 ELSE 0)]

\* 2b. realtime momentum, 3. volume spike, 4. price action
FlowScores(flow) ==
    [long |-> (IF flow.momentum = "long" THEN flow.score ELSE 0) + flow.boost
              + (IF flow.priceAction = "long" THEN 20 ELSE 0),
     short |-> (IF flow.momentum = "short" THEN flow.score ELSE 0) + flow.boost
               + (IF flow.priceAction = "short" THEN 20 ELSE 0)]

\* the book orderBookAnalyzer.analyze works on, or FetchFails when there is
\* no young cached snapshot and the REST call rejects
Fetched(symbol, fresh, rest) == BookFor(symbol, fresh, rest)

\* technicalIndicators.calculate(prices) is called and throws
CalculateThrows(nPrices) == nPrices >= MIN_PRICES /\ nPrices < MIN_POINTS

\* the long and short scores at "Determine direction and confidence"
TotalScores(book, nPrices, ind, flow) ==
    LET ob == IF book = FetchFails THEN [long |-> 0, short |-> 0]
              ELSE BookScores(ObAnalysis(book))
        tech == IF nPrices >= MIN_PRICES THEN TechScores(ind)
                ELSE [long |-> 0, short |-> 0]
        rest == FlowScores(flow)
    IN [long |-> ob.long + tech.long + rest.long,
        short |-> ob.short + tech.short + rest.short]

\* analyze() from the return (or rejection) of the order-book await to its
\* return: null, or the signal
AnalyzeFinish(c, fresh, rest, nPrices, ind, flow) ==
    LET symbol == c.symbol
        currentPrice == c.price
        book == Fetched(symbol, fresh, rest)
        scores == TotalScores(book, nPrices, ind, flow)
        direction == IF scores.long > scores.short THEN "long" ELSE "short"
        confidence == Max(scores.long, scores.short)
        id == Len(scalps) + 1
        rejected == \/ confidence < config.minConfidence
                    \/ config.takeProfitPercent * 10
                          < config.minRiskReward * config.stopLossPercent
    IN
    /\ analyzing[c] > 0
    /\ ~CalculateThrows(nPrices)
    /\ analyzing' = [analyzing EXCEPT ![c] = @ - 1]
    /\ lastAnalysis' = IF book = FetchFails THEN lastAnalysis
                       ELSE Saved(symbol, book)
    /\ IF rejected
       THEN /\ sEmitted' = <<>>
            /\ UNCHANGED <<lastSignalTime, activeScalps, scalps>>
       ELSE /\ Len(scalps) < MaxScalps
            /\ lastSignalTime' = [lastSignalTime EXCEPT ![symbol] = now]
            /\ scalps' = Append(scalps,
                   NewScalp(symbol, direction, currentPrice, confidence,
                            config, now))
            /\ activeScalps' = [activeScalps EXCEPT ![symbol] = id]
            /\ sEmitted' = <<ScalpEvent("signal", id)>>
    /\ UNCHANGED <<now, config, tradeHistory>>
    /\ UNCHANGED <<fetcherVars, trackerVars, streamVars>>

\* analyze() from the return (or rejection) of the order-book await to the
\* throw of technicalIndicators.calculate, which nothing catches: the
\* promise analyze() returned is rejected
AnalyzeThrows(c, fresh, rest, nPrices) ==
    LET book == Fetched(c.symbol, fresh, rest) IN
    /\ analyzing[c] > 0
    /\ CalculateThrows(nPrices)
    /\ analyzing' = [analyzing EXCEPT ![c] = @ - 1]
    /\ lastAnalysis' = IF book = FetchFails THEN lastAnalysis
                       ELSE Saved(c.symbol, book)
    /\ sEmitted' = <<>>
    /\ UNCHANGED <<now, config, lastSignalTime, activeScalps, scalps,
                   tradeHistory>>
    /\ UNCHANGED <<fetcherVars, trackerVars, streamVars>>

AnalyzeNext ==
    \/ \E symbol \in ScalpSymbols, p \in Prices :
          AnalyzeStart(symbol, p, NoBook)
    \/ \E c \in Pending, fresh \in BOOLEAN, rest \in ScalpBooks \cup {FetchFails},
          nPrices \in PriceCounts, ind \in Indicators, flow \in Flows :
          /\ rest # FetchFails => lastAnalysis.id < MaxAnalyses
          /\ AnalyzeFinish(c, fresh, rest, nPrices, ind, flow)
    \/ \E c \in Pending, fresh \in BOOLEAN, rest \in ScalpBooks \cup {FetchFails},
          nPrices \in PriceCounts :
          /\ rest # FetchFails => lastAnalysis.id < MaxAnalyses
          /\ AnalyzeThrows(c, fresh, rest, nPrices)

\* the flow contributions analyze() gets for a symbol when the realtime
\* momentum is computed from the buffered trades and there is neither a
\* volume spike nor a price-action signal
FlowOf(symbol) ==
    LET m == analyzeRealtimeMomentum(getTrades(tradeBuffer[symbol], 30))
    IN [momentum |-> m.signal, score |-> m.score, boost |-> 0,
        priceAction |-> "neutral"]

MaxTrendTrades == 22
TrendSteps == {-10, 10}

\* Runs of trades of one symbol, one trade per message, all of one side and
\* each one price step above (or each one step below) the trade before it,
\* and analyses that read the buffer.
MomentumNext ==
    \/ \E s \in Sockets, step \in TrendSteps, side \in {"buy", "sell"} :
          LET buffer == tradeBuffer["BTC/IDR"]
              n == Len(buffer)
          IN /\ received["BTC/IDR"] < MaxTrendTrades
             /\ n >= 1 => side = buffer[1].side
             /\ n >= 2 => step = buffer[2].price - buffer[1].price
             /\ TradeMessage(s, "BTC/IDR",
                    <<FlowRow(IF n = 0 THEN 100000 ELSE buffer[n].price + step,
                              side, 1)>>)
    \/ AnalyzeStart("BTC/IDR", 100000, NoBook)
    \/ \E c \in Pending, rest \in ScalpBooks, ind \in Indicators :
          /\ lastAnalysis.id < MaxAnalyses
          /\ AnalyzeFinish(c, FALSE, rest, 10, ind, FlowOf(c.symbol))

Init == ScalperInit /\ FetcherInit /\ TrackerIdle /\ StreamInit /\ AnalyzerInit

(***************************************************************************)
(* checkScalpExit over its inputs: an active scalp as analyze() leaves it, *)
(* every configuration of the wall exit, prices around the targets and     *)
(* order books with and without walls in the path.                         *)
(***************************************************************************)
ExitPrices == {99700, 99850, 100000, 100100, 100150, 100300}

ExitOrderBooks ==
    OrderBooks \cup
    { \* five stacked asks from +0.2% of 100000, four times the bids
      [present |-> TRUE,
       asks |-> <<Level(100200, 20), Level(100210, 5), Level(100220, 5),
                  Level(100230, 5), Level(100240, 5)>>,
       bids |-> <<Level(99900, 10)>>],
      \* six stacked asks, the largest at +0.2% of 100000 not the first, four
      \* times the two bids
      [present |-> TRUE,
       asks |-> <<Level(100160, 4), Level(100200, 16), Level(100210, 5),
                  Level(100220, 5), Level(100230, 5), Level(100240, 5)>>,
       bids |-> <<Level(99900, 6), Level(99800, 4)>>],
      \* three stacked asks, 2.5 times the bids, more than 0.1% away
      [present |-> TRUE,
       asks |-> <<Level(100260, 10), Level(100270, 8), Level(100280, 7)>>,
       bids |-> <<Level(99900, 10)>>],
      \* one ask four times the bids, more than 0.1% away
      [present |-> TRUE,
       asks |-> <<Level(100280, 40)>>,
       bids |-> <<Level(99900, 10)>>],
      \* one ask 1.5 times the bids, close
      [present |-> TRUE,
       asks |-> <<Level(100200, 15)>>,
       bids |-> <<Level(99900, 10)>>],
      \* three stacked bids, 2.5 times the asks, more than 0.1% away
      [present |-> TRUE,
       asks |-> <<Level(100400, 10)>>,
       bids |-> <<Level(99740, 10), Level(99730, 8), Level(99720, 7)>>] }

ExitConfigUpdates ==
    {[k \in {"wallBreakThreshold"} |-> v] : v \in {50, 200, 300, 500}}
    \cup {[k \in {"enableWallExit"} |-> v] : v \in BOOLEAN}
    \cup {[k \in {"minProfitForWallExit"} |-> v] : v \in {-20, 10, 20}}

\* The state analyze() leaves when it accepts a signal with the default
\* configuration.
ExitInit ==
    /\ now = Epoch
    /\ config = DEFAULT_CONFIG
    /\ \E symbol \in ScalpSymbols, direction \in {"long", "short"},
          currentPrice \in Prices :
          /\ lastSignalTime = [s \in ScalpSymbols |->
                                  IF s = symbol THEN Epoch ELSE 0]
          /\ activeScalps = [s \in ScalpSymbols |->
                                IF s = symbol THEN 1 ELSE 0]
          /\ scalps = <<NewScalp(symbol, direction, currentPrice,
                                 DEFAULT_CONFIG.minConfidence,
                                 DEFAULT_CONFIG, Epoch)>>
    /\ tradeHistory = <<>>
    /\ analyzing = [c \in Pending |-> 0]
    /\ sEmitted = <<ScalpEvent("signal", 1)>>
    /\ FetcherInit
    /\ TrackerIdle
    /\ StreamInit
    /\ AnalyzerInit

ExitNext ==
    \/ \E s \in ScalpSymbols, p \in ExitPrices, ob \in ExitOrderBooks :
          CheckScalpExit(s, p, ob)
    \/ \E partial \in ExitConfigUpdates : UpdateConfig(partial)

\* Histories of up to MaxScalps exits of every kind: entries on signals of
\* either direction, exits at prices around the targets with and without
\* walls in the path, manual exits, and a wall exit permitted at a loss.
StatsConfigUpdates == {[k \in {"minProfitForWallExit"} |-> v] : v \in {-20, 10}}

StatsNext ==
    \/ Tick
    \/ \E s \in ScalpSymbols, p \in {100000} : AnalyzeStart(s, p, NoBook)
    \/ \E c \in Pending, l \in {50, 60}, sh \in {50, 60} : AnalyzeResume(c, l, sh)
    \/ \E s \in ScalpSymbols, p \in ExitPrices, ob \in ExitOrderBooks :
          CheckScalpExit(s, p, ob)
    \/ \E s \in ScalpSymbols, p \in {99850, 100300} : ManualExit(s, p)
    \/ \E partial \in StatsConfigUpdates : UpdateConfig(partial)

SpecExit == ExitInit /\ [][ExitNext]_vars

SpecStats == Init /\ [][StatsNext]_vars

SpecScalper == Init /\ [][ScalperNext]_vars

SpecFetcher == Init /\ [][FetcherNext]_vars

SpecTracker == TrackerInit /\ [][TrackerNext]_vars

SpecShared == SharedInit /\ [][SharedNext]_vars

SpecBuffer == ConnectedInit /\ [][BufferNext]_vars

SpecStream == ConnectedInit /\ [][StreamNext]_vars

SpecDepth == ConnectedInit /\ [][DepthNext]_vars

SpecAnalyze == ConnectedInit /\ [][AnalyzeNext]_vars

SpecWalls == ConnectedInit /\ [][WallsNext]_vars

SpecMomentum == ConnectedInit /\ [][MomentumNext]_vars

(***************************************************************************)
(* Claims about the Scalper (checked under SpecScalper)                    *)
(***************************************************************************)
ScalpIds == DOMAIN scalps

\* C1: for every symbol, any two 'signal' events are at least cooldownMs
\* apart.  Every emitted signal allocates one scalp object stamped with the
\* emission time, so the signals emitted so far are the elements of scalps.
C1_SignalsCooldownApart ==
    \A i \in ScalpIds, j \in ScalpIds :
        (i < j /\ scalps[i].symbol = scalps[j].symbol)
            => scalps[j].timestamp - scalps[i].timestamp >= config.cooldownMs

\* C2: for every symbol, at most one scalp with status 'active' exists.
C2_AtMostOneActiveScalp ==
    \A sym \in ScalpSymbols :
        Cardinality({i \in ScalpIds : /\ scalps[i].symbol = sym
                                      /\ scalps[i].status = "active"}) <= 1

\* C10: every step in which an active scalp leaves the 'active' status
\* (tp_hit, sl_hit, wall_exit, manual_exit) appends that scalp to the history,
\* removes it from the active map and emits exactly one 'exit' event for it.
C10_EveryExitArchivesAndEmits ==
    [][\A id \in ScalpIds :
          (scalps[id].status = "active" /\ scalps'[id].status # "active")
              => /\ tradeHistory' = Append(tradeHistory, id)
                 /\ activeScalps'[scalps[id].symbol] # id
                 /\ sEmitted' = <<ScalpEvent("exit", id)>>]_vars

TerminalStatus == {"tp_hit", "sl_hit", "manual_exit", "expired", "wall_exit"}

Archived == {tradeHistory[i] : i \in DOMAIN tradeHistory}

\* C11: a scalp's status changes only from 'active' to a terminal status;
\* every history entry has a terminal status; the history only grows, and a
\* scalp in the history keeps its status, exit price, exit time and realized
\* PnL through every later step.
C11_ArchivedScalpsImmutable ==
    /\ [](\A id \in Archived : scalps[id].status \in TerminalStatus)
    /\ [][\A id \in ScalpIds :
             scalps'[id].status # scalps[id].status
                => (scalps[id].status = "active"
                    /\ scalps'[id].status \in TerminalStatus)]_vars
    /\ [][/\ SubSeq(tradeHistory', 1, Len(tradeHistory)) = tradeHistory
          /\ \A id \in Archived :
                /\ scalps'[id].status = scalps[id].status
                /\ scalps'[id].exitPrice = scalps[id].exitPrice
                /\ scalps'[id].exitTime = scalps[id].exitTime
                /\ scalps'[id].profitPercent = scalps[id].profitPercent]_vars

\* C11 witness: a scalp was archived and, afterwards, another scalp of the
\* same symbol was opened and archived at a different price.
C11_Witness ==
    /\ Len(tradeHistory) = 2
    /\ scalps[tradeHistory[1]].status = "tp_hit"
    /\ scalps[tradeHistory[2]].status = "manual_exit"
    /\ scalps[tradeHistory[1]].exitPrice # scalps[tradeHistory[2]].exitPrice

\* a 'signal' was emitted in the last step
SignalEmitted == \E i \in DOMAIN sEmitted : sEmitted[i].type = "signal"

\* takeProfitPercent / stopLossPercent < minRiskReward (minRiskReward in tenths)
RiskRewardBelowMin(cfg) ==
    cfg.takeProfitPercent * 10 < cfg.minRiskReward * cfg.stopLossPercent

\* C15: no 'signal' is emitted while takeProfitPercent/stopLossPercent is
\* below minRiskReward in the configuration in force at the emission, however
\* updateConfig() and analyze() calls interleave.
C15_NoSignalBelowMinRiskReward ==
    SignalEmitted => ~RiskRewardBelowMin(config)

\* C15 witness: a second signal was just emitted while the risk/reward of the
\* configuration is at least the minimum.
C15_Witness ==
    /\ sEmitted = <<ScalpEvent("signal", 2)>>
    /\ ~RiskRewardBelowMin(config)
    /\ now > Epoch

\* C16: a signal has the direction of the larger score and confidence
\* min(1, max(longScore, shortScore)), never below minConfidence; when
\* max(longScore, shortScore) < minConfidence analyze() emits nothing, creates
\* no scalp, leaves the active map alone and does not stamp the cooldown.
C16_DirectionAndConfidence ==
    [][\A c \in Pending, longScore \in Scores, shortScore \in Scores :
          (analyzing'[c] < analyzing[c] /\ AnalyzeResume(c, longScore, shortScore))
             => /\ SignalEmitted'
                      => LET signal == scalps'[sEmitted'[1].scalp] IN
                         /\ longScore > shortScore => signal.direction = "long"
                         /\ shortScore > longScore => signal.direction = "short"
                         /\ signal.confidence = Min(100, Max(longScore, shortScore))
                         /\ signal.confidence >= config.minConfidence
                /\ Max(longScore, shortScore) < config.minConfidence
                      => (/\ sEmitted' = <<>>
                          /\ scalps' = scalps
                          /\ activeScalps' = activeScalps
                          /\ lastSignalTime' = lastSignalTime)]_vars

\* C16 witness: a short signal with confidence capped at 1 was just emitted.
C16_Witness ==
    /\ SignalEmitted
    /\ scalps[sEmitted[1].scalp].direction = "short"
    /\ scalps[sEmitted[1].scalp].confidence = 100
    /\ scalps[sEmitted[1].scalp].status = "active"

(***************************************************************************)
(* Claims about checkScalpExit (checked under SpecExit)                    *)
(***************************************************************************)
HitsTp(s, price) ==
    IF s.direction = "long" THEN price * 10000 >= s.takeProfit
    ELSE price * 10000 <= s.takeProfit

HitsSl(s, price) ==
    IF s.direction = "long" THEN price * 10000 <= s.stopLoss
    ELSE price * 10000 >= s.stopLoss

\* the levels of the side in the way (asks for long, bids for short)
PathSide(s, ob) == IF s.direction = "long" THEN ob.asks ELSE ob.bids

\* no order-book level lies strictly between the price and the take-profit
NoLevelInPath(s, price, ob) ==
    \A i \in DOMAIN PathSide(s, ob) :
        LET o == PathSide(s, ob)[i] IN
        IF s.direction = "long"
        THEN ~(o.price > price /\ o.price * 10000 < s.takeProfit)
        ELSE ~(o.price < price /\ o.price * 10000 > s.takeProfit)

\* the active scalp of the symbol (0: none)
ActiveId(symbol) ==
    IF activeScalps[symbol] # 0 /\ scalps[activeScalps[symbol]].status = "active"
    THEN activeScalps[symbol] ELSE 0

\* C12: for an active scalp, checkScalpExit at a price at or beyond the
\* take-profit exits with tp_hit and at or beyond the stop-loss with sl_hit
\* (long: >= TP, <= SL; short mirrored), whatever walls the order book holds;
\* at a price strictly between the two with no order-book level between the
\* price and the take-profit it exits nothing and the scalp stays active.
C12_TpSlExits ==
    \A symbol \in ScalpSymbols, p \in ExitPrices, ob \in ExitOrderBooks :
       LET id == ActiveId(symbol) IN
       id # 0 =>
          /\ HitsTp(scalps[id], p)
                => ENABLED (/\ CheckScalpExit(symbol, p, ob)
                            /\ scalps'[id].status = "tp_hit")
          /\ (~HitsTp(scalps[id], p) /\ HitsSl(scalps[id], p))
                => ENABLED (/\ CheckScalpExit(symbol, p, ob)
                            /\ scalps'[id].status = "sl_hit")
          /\ (/\ ~HitsTp(scalps[id], p)
              /\ ~HitsSl(scalps[id], p)
              /\ NoLevelInPath(scalps[id], p, ob))
                => ENABLED (/\ CheckScalpExit(symbol, p, ob)
                            /\ scalps' = scalps
                            /\ activeScalps' = activeScalps
                            /\ tradeHistory' = tradeHistory
                            /\ sEmitted' = <<>>)

\* C12 witness: a long scalp was stopped out at its stop-loss while the wall
\* exit was enabled for losing positions too (walls in the path could
\* otherwise have exited it).
C12_Witness ==
    /\ Len(scalps) = 1
    /\ scalps[1].direction = "long"
    /\ scalps[1].status = "sl_hit"
    /\ scalps[1].exitPrice * 10000 = scalps[1].stopLoss
    /\ config.enableWallExit
    /\ config.minProfitForWallExit < 0
    /\ tradeHistory = <<1>>
    /\ sEmitted = <<ScalpEvent("exit", 1)>>

\* checkScalpExit runs on the active scalp id at price p with order book ob:
\* no TP/SL crossing, wall exit enabled, PnL >= minProfitForWallExit, and the
\* wall analysis recommends exit_profit
WallExitCase(id, p, ob) ==
    /\ ~HitsTp(scalps[id], p)
    /\ ~HitsSl(scalps[id], p)
    /\ config.enableWallExit
    /\ PnLx(scalps[id], p) >= config.minProfitForWallExit * scalps[id].entryPrice
    /\ analyzeWallsForExit(ob, p, scalps[id]).recommendation = "exit_profit"

\* C13 as stated: in the wall-exit case the scalp exits with wall_exit, for
\* every configured value of wallBreakThreshold.
C13_ExitProfitExits ==
    \A symbol \in ScalpSymbols, p \in ExitPrices, ob \in ExitOrderBooks :
       LET id == ActiveId(symbol) IN
       (id # 0 /\ WallExitCase(id, p, ob))
          => ENABLED (/\ CheckScalpExit(symbol, p, ob)
                      /\ scalps'[id].status = "wall_exit")

\* C13 amended: in the wall-exit case, when the break probability of the
\* wall analysis is below the configured wallBreakThreshold, the scalp exits
\* with wall_exit.
C13_ExitProfitBelowThresholdExits ==
    \A symbol \in ScalpSymbols, p \in ExitPrices, ob \in ExitOrderBooks :
       LET id == ActiveId(symbol) IN
       (/\ id # 0
        /\ WallExitCase(id, p, ob)
        /\ analyzeWallsForExit(ob, p, scalps[id]).breakProbability
              < config.wallBreakThreshold)
          => ENABLED (/\ CheckScalpExit(symbol, p, ob)
                      /\ scalps'[id].status = "wall_exit"
                      /\ sEmitted' = <<ScalpEvent("exit", id)>>)

\* C13 witness: a scalp just left by a wall exit under a threshold other than
\* the default one, at a profit equal to minProfitForWallExit.
C13_Witness ==
    /\ Len(scalps) = 1
    /\ scalps[1].status = "wall_exit"
    /\ config.wallBreakThreshold = 200
    /\ scalps[1].profitPercent = config.minProfitForWallExit * scalps[1].entryPrice
    /\ sEmitted = <<ScalpEvent("exit", 1)>>

\* the asks of ob strictly between price p and the take-profit of scalp s
AsksInPath(s, p, ob) ==
    SelectSeq(ob.asks, LAMBDA o : o.price > p /\ o.price * 10000 < s.takeProfit)

\* the scenario of C14: a long scalp at +0.15%, at least five ask levels
\* strictly between the price and the take-profit summing to four times the
\* bid-side volume, the largest of them at +0.2% of the entry price
StackedWallCase(s, p, ob) ==
    /\ s.direction = "long"
    /\ PnLx(s, p) = 15 * s.entryPrice
    /\ ob.present
    /\ Len(AsksInPath(s, p, ob)) >= 5
    /\ SumVolumeIdr(AsksInPath(s, p, ob)) = 4 * SumVolumeIdr(ob.bids)
    /\ SumVolumeIdr(ob.bids) > 0
    /\ \E i \in DOMAIN AsksInPath(s, p, ob) :
          /\ AsksInPath(s, p, ob)[i].price * 10000 = s.entryPrice * 10020
          /\ \A j \in DOMAIN AsksInPath(s, p, ob) :
                AsksInPath(s, p, ob)[j].volumeIdr
                   <= AsksInPath(s, p, ob)[i].volumeIdr

\* C14: with the default configuration, in the scenario above the wall
\* analysis yields strength 'massive' and a break probability below 0.2, and
\* checkScalpExit exits the scalp with wall_exit.
C14_StackedWallExits ==
    \A symbol \in ScalpSymbols, p \in ExitPrices, ob \in ExitOrderBooks :
       LET id == ActiveId(symbol) IN
       (/\ id # 0
        /\ config = DEFAULT_CONFIG
        /\ StackedWallCase(scalps[id], p, ob))
          => /\ analyzeWallsForExit(ob, p, scalps[id]).wallStrength = "massive"
             /\ analyzeWallsForExit(ob, p, scalps[id]).breakProbability < 200
             /\ ENABLED (/\ CheckScalpExit(symbol, p, ob)
                         /\ scalps'[id].status = "wall_exit"
                         /\ sEmitted' = <<ScalpEvent("exit", id)>>)

\* C14 witness: with the default configuration a long scalp entered at
\* 100000 just left by a wall exit at +0.15%.
C14_Witness ==
    /\ config = DEFAULT_CONFIG
    /\ Len(scalps) = 1
    /\ scalps[1].direction = "long"
    /\ scalps[1].status = "wall_exit"
    /\ scalps[1].profitPercent = 15 * scalps[1].entryPrice
    /\ sEmitted = <<ScalpEvent("exit", 1)>>
    /\ \E ob \in ExitOrderBooks :
          StackedWallCase(scalps[1], scalps[1].exitPrice, ob)

(***************************************************************************)
(* Claims about the RealtimeFetcher (checked under SpecFetcher)            *)
(***************************************************************************)
AuthIds(log) == {log[i].id : i \in {j \in DOMAIN log : log[j].method = 0}}
AuthCount(log) == Cardinality({j \in DOMAIN log : log[j].method = 0})
Sessions == {s \in Sockets : socks[s].state \in {"connecting", "open"}}

\* s is the session this.ws of the client, open, and no other socket exists
OnlySession(s) ==
    /\ s = ws
    /\ socks[s].state = "open"
    /\ \A t \in Sockets \ {s} : socks[t] = NoSocket

\* the server's success response to an authentication message of session s,
\* carrying that message's id, is handled in this step
AuthAnswered(s, id) ==
    /\ id \in AuthIds(sent[s])
    /\ HandleMessage(s, id, TRUE)

\* C3: after a transport close, once the reconnect timer has opened a new
\* session and the server answers its authentication message with a success
\* response carrying that message's id, the client is connected again
\* (connected flag true, 'connected' emitted).
C3_ReconnectBecomesConnected ==
    [][\A s \in Sockets, id \in 1..MaxMessageId :
          (/\ OnlySession(s)
           /\ socks[s].origin = "reconnect"
           /\ AuthAnswered(s, id))
              => (isConnected' /\ fEmitted' = <<"connected">>)]_vars

\* C4: in every session that waits for its authentication (taken alone: no
\* other socket exists) the first outbound message is the authentication
\* message with id 1, and the connected flag becomes true exactly in the
\* steps that handle a response with id 1 and a truthy result.
C4_FirstMessageIsAuthId1 ==
    /\ [](\A s \in Sockets :
             (OnlySession(s) /\ socks[s].promise = "pending" /\ sent[s] # <<>>)
                => sent[s][1] = AuthMessage(1))
    /\ [][(~isConnected /\ isConnected')
             <=> (~isConnected /\ \E s \in Sockets : HandleMessage(s, 1, TRUE))]_vars

\* C5: at most one streaming session is open (or being opened) at any time,
\* and an open session has received exactly one authentication message.
C5_ConnectIdempotent ==
    /\ Cardinality(Sessions) <= 1
    /\ \A s \in Sockets : socks[s].state = "open" => AuthCount(sent[s]) = 1

\* C6: after disconnect(), until connect() is called again, no reconnect
\* attempt is pending (so none can fire and open a session).
C6_NoReconnectAfterDisconnect ==
    stopped => TimerCount = 0

\* a connect() made by the reconnect timer for socket s is rejected in this step
ReconnectAttemptFails(s) ==
    /\ socks[s].promise = "pending"
    /\ socks[s].origin = "reconnect"
    /\ socks'[s].promise # "pending"
    /\ fEmitted' # <<"connected">>

SubscribesExactly(msgs, syms) ==
    /\ Len(msgs) = 2 * Cardinality(syms)
    /\ \A i \in DOMAIN msgs : msgs[i].method = 1
    /\ \A sym \in syms :
          /\ Cardinality({i \in DOMAIN msgs : msgs[i].channel = TradeChannel(sym)}) = 1
          /\ Cardinality({i \in DOMAIN msgs : msgs[i].channel = BookChannel(sym)}) = 1

\* C8: when the server's success response to the authentication of a session
\* that waits for it is handled, the client sends exactly one trade-activity and one order-book
\* subscribe for each tracked symbol and for no other; the tracked set is the
\* symbols subscribed and not unsubscribed since; a request made while not
\* connected sends nothing.
C8_ResubscribeOnAuth ==
    /\ [](tracked = Elements(subscribedSymbols))
    /\ [][\A sym \in Symbols :
             (~isConnected /\ (Subscribe(sym) \/ Unsubscribe(sym)))
                => fSent' = <<>>]_vars
    /\ [][\A s \in Sockets, id \in 1..MaxMessageId :
             (/\ OnlySession(s)
              /\ socks[s].promise = "pending"
              /\ AuthAnswered(s, id))
                => SubscribesExactly(fSent', tracked)]_vars

\* the subscribe pair of sym was already written to the current session
PairSent(sym) ==
    /\ ws # 0
    /\ \E i \in DOMAIN sent[ws] : sent[ws][i].method = 1
                                  /\ sent[ws][i].channel = TradeChannel(sym)

\* C9: subscribe(symbol) called again while connected, for a symbol already
\* in the subscription set whose channels were already subscribed on this
\* session, leaves the set unchanged and sends nothing.
C9_SecondSubscribeSendsNothing ==
    [][\A sym \in Symbols :
          (/\ isConnected
           /\ sym \in Elements(subscribedSymbols)
           /\ PairSent(sym)
           /\ Subscribe(sym))
              => (subscribedSymbols' = subscribedSymbols /\ fSent' = <<>>)]_vars

(***************************************************************************)
(* Claims about the PositionTracker (checked under SpecTracker)            *)
(***************************************************************************)
Count(seq, x) == Cardinality({i \in DOMAIN seq : seq[i] = x})

Updates(events, id) == Count(events, TrackerEvent("position:update", id))

\* the price crosses the take-profit or the stop-loss of the position, in
\* the direction-aware sense
Crosses(position, price) ==
    \/ position.side = "long"
       /\ \/ position.take_profit_price # 0
             /\ price >= position.take_profit_price
          \/ position.stop_loss_price # 0
             /\ price <= position.stop_loss_price
    \/ position.side = "short"
       /\ \/ position.take_profit_price # 0
             /\ price <= position.take_profit_price
          \/ position.stop_loss_price # 0
             /\ price >= position.stop_loss_price

OpenIds(symbol) ==
    {id \in DOMAIN positions : /\ positions[id].status = "open"
                               /\ positions[id].symbol = symbol}

\* C17: whenever position:close_failed is emitted for a position, the
\* position is still open afterwards; while the monitor runs, the next price
\* observation that evaluates it at a crossing price calls closePosition()
\* for it again; and no step calls closePosition() for a position more often
\* than it evaluates it (no retry within an observation).
C17_CloseFailedLeavesOpen ==
    /\ \A i \in DOMAIN tEmitted :
          tEmitted[i].type = "position:close_failed" =>
             LET id == tEmitted[i].position
             IN /\ positions[id].status = "open"
                /\ isRunning =>
                     \A price \in Prices :
                        Crosses(positions[id], price) =>
                           ~ENABLED (/\ PriceEvent(positions[id].symbol, price)
                                     /\ Updates(tEmitted', id) > 0
                                     /\ Count(tCalled', id) = 0)
    /\ \A id \in DOMAIN positions :
          Count(tCalled, id) <= Updates(tEmitted, id)

\* C18: while the monitor runs, a price observation for a symbol emits
\* exactly one position:update for the open positions of the symbol it
\* reaches in that turn (the newest one always), and calls closePosition()
\* for such a position exactly when the price crosses its take-profit or
\* stop-loss.
C18_OneUpdatePerObservation ==
    isRunning =>
       \A symbol \in Symbols, price \in Prices :
          ~ENABLED (/\ PriceEvent(symbol, price)
                    /\ LET open == getAllOpenPositions(positions, symbol)
                       IN \/ /\ open # <<>>
                             /\ Updates(tEmitted', open[1].id) # 1
                          \/ \E id \in OpenIds(symbol) :
                                \/ Updates(tEmitted', id) > 1
                                \/ /\ Updates(tEmitted', id) = 1
                                   /\ Count(tCalled', id) #
                                         (IF Crosses(positions[id], price)
                                          THEN 1 ELSE 0)
                                \/ /\ Updates(tEmitted', id) = 0
                                   /\ Count(tCalled', id) # 0)

\* C19: a stopped monitor has no sweep timer and no price handler registered
\* on the fetcher; a running one has exactly one handler registered, so that
\* a price event evaluates the newest open position of its symbol once.
C19_OneHandlerWhileRunning ==
    /\ ~isRunning => ~checkInterval /\ listeners = 0
    /\ isRunning =>
          /\ listeners = 1
          /\ \A symbol \in Symbols, price \in Prices :
                ~ENABLED (/\ PriceEvent(symbol, price)
                          /\ LET open == getAllOpenPositions(positions, symbol)
                             IN /\ open # <<>>
                                /\ Updates(tEmitted', open[1].id) # 1)

\* some event or closePosition() call is made in the step
Acts == tEmitted' # <<>> \/ tCalled' # <<>>

\* C20: once the monitor is stopped, a sweep that was suspended in a ticker
\* fetch or in a close operation emits nothing and calls closePosition() for
\* nothing when that call completes.
C20_SuspendedSweepDiscarded ==
    ~isRunning =>
       \A t \in TaskSlots :
          tasks[t].kind = "sweep" =>
             /\ \A price \in Prices : ~ENABLED (TickerResolve(t, price) /\ Acts)
             /\ ~ENABLED (TickerReject(t) /\ Acts)
             /\ ~ENABLED (CloseResolve(t) /\ Acts)
             /\ ~ENABLED (CloseReject(t) /\ Acts)

\* C21: a sweep never evaluates an open position from a remembered price
\* when no streamed price was handled for its symbol since the previous
\* sweep began: the newest open position of such a symbol is not evaluated
\* in the turn the timer fires (its price is fetched first).
C21_SweepFetchesFreshPrice ==
    isRunning =>
       LET open == getAllOpenPositions(positions, "")
       IN open # <<>> /\ open[1].symbol \notin streamed =>
             ~ENABLED (SweepFire /\ Updates(tEmitted', open[1].id) > 0)

\* the symbols that have at least one open position
OpenSymbols ==
    {positions[id].symbol :
        id \in {i \in DOMAIN positions : positions[i].status = "open"}}

\* C22: when a sweep completes and no subscribe or unsubscribe request
\* failed, the tracker's subscription set is exactly the set of symbols that
\* have an open position.  A sweep that completes in the turn its timer
\* fires reconciles against the table as it is (first part); one that
\* completes when its last REST call returns does so against the table of
\* that moment (second part).
C22_SweepReconcilesSubscriptions ==
    /\ [](isRunning /\ ~SendThrows =>
            Elements(updateSubscriptions(positions, FetcherSubs,
                                         ptSubscribedSymbols).own)
               = OpenSymbols)
    /\ [][(/\ ~SendThrows
           /\ \E t \in TaskSlots : tasks[t].kind = "sweep"
                                   /\ tasks'[t] = NoTask)
             => Elements(ptSubscribedSymbols') = OpenSymbols']_vars

\* a sweep found the BTC/IDR position closed and unsubscribed from its
\* symbol, keeping ETH/IDR
C22_Witness ==
    /\ isRunning
    /\ Len(positions) = 2
    /\ positions[1].status = "closed"
    /\ positions[2].status = "open"
    /\ ptSubscribedSymbols = <<"ETH/IDR">>
    /\ fSent = UnsubscribeMessages("BTC/IDR", messageId - 2)
    /\ \A t \in TaskSlots : tasks[t] = NoTask

(***************************************************************************)
(* Claims about the market data of the RealtimeFetcher (checked under      *)
(* SpecBuffer and SpecStream)                                              *)
(***************************************************************************)
\* C23: for every symbol the trade buffer holds at most 100 trades, and it
\* holds exactly the most recent trades in arrival order: with n trades
\* received it is trades n - len + 1 .. n, len = min(n, 100), so the one
\* evicted from a full buffer is the oldest.
C23_BufferHoldsMostRecent ==
    \A symbol \in Symbols :
       LET buffer == tradeBuffer[symbol]
           n == received[symbol]
       IN /\ Len(buffer) <= BUFFER_CAPACITY
          /\ Len(buffer) = Min(n, BUFFER_CAPACITY)
          /\ \A i \in DOMAIN buffer : buffer[i].seq = n - Len(buffer) + i

\* two trades past the capacity: trades 1 and 2 have been evicted
C23_Witness ==
    /\ received["BTC/IDR"] = BUFFER_CAPACITY + 2
    /\ Len(tradeBuffer["BTC/IDR"]) = BUFFER_CAPACITY
    /\ tradeBuffer["BTC/IDR"][1].seq = 3
    /\ tradeBuffer["BTC/IDR"][BUFFER_CAPACITY].seq = BUFFER_CAPACITY + 2

\* C24: for each symbol one candle is forwarded per ten trades received and
\* none on any other trade, whatever the number of trades: the candles
\* forwarded are never more than a tenth of the trades, and never fewer
\* than one for each complete ten but the last (the first candle may go out
\* on the 10th or on the 11th trade).
C24_CandleEveryTenthTrade ==
    \A symbol \in Symbols :
       /\ CANDLE_EVERY * Len(candles[symbol]) <= received[symbol]
       /\ received[symbol]
             <= CANDLE_EVERY * Len(candles[symbol]) + CANDLE_EVERY

\* C25: after an order-book message with data for a symbol, the snapshot
\* cached for the symbol is exactly the snapshot of that message, whether
\* or not a trade of the symbol was received before.
C25_OrderBookCached ==
    \A s \in Sockets, symbol \in Symbols :
       \A wire \in {w \in WireBooks : w.hasData} :
          ~ENABLED (/\ OrderBookMessage(s, symbol, wire)
                    /\ ~(/\ priceCache'[symbol].present
                         /\ priceCache'[symbol].orderBook = Snapshot(wire)))

\* the trade batches of one or two rows with a malformed row
MalformedBatches ==
    UNION {{rows \in [1..n -> StreamRows] :
               \E i \in 1..n : rows[i].kind # "trade"} : n \in 1..2}

\* the step changes the market data or the session, or emits an event
Disturbs ==
    \/ streamVars' # streamVars
    \/ fEmitted' # <<>>
    \/ subscribedSymbols' # subscribedSymbols
    \/ isConnected' # isConnected
    \/ ws' # ws
    \/ socks' # socks
    \/ timers' # timers

\* C26: handling a malformed message (data that is not JSON, or a trade
\* batch with a row that is not a well-formed tuple) changes nothing: the
\* price cache, trade buffers, subscription set, connected flag and session
\* are as before, no event is emitted and no reconnect is scheduled.
C26_MalformedMessageDropped ==
    \A s \in Sockets :
       /\ ~ENABLED (GarbageMessage(s) /\ Disturbs)
       /\ \A symbol \in Symbols, rows \in MalformedBatches :
             ~ENABLED (TradeMessage(s, symbol, rows) /\ Disturbs)

(***************************************************************************)
(* Claims about the contributions of Scalper.analyze() (checked under      *)
(* SpecAnalyze)                                                            *)
(***************************************************************************)
\* C27: when fewer than 50 price points are available, so that the
\* technical indicator provider would error, a suspended analyze() omits
\* the technical contribution and completes normally: it never ends in
\* the provider's error.
C27_DegradesBelowMinimumWindow ==
    \A c \in Pending :
       analyzing[c] > 0 =>
          \A fresh \in BOOLEAN, rest \in ScalpBooks \cup {FetchFails} :
             \A nPrices \in {n \in PriceCounts : n < MIN_POINTS} :
                ~ENABLED AnalyzeThrows(c, fresh, rest, nPrices)

\* the step emits 'signal', creates an active scalp or stamps the cooldown
Signals ==
    \/ sEmitted' # <<>>
    \/ scalps' # scalps
    \/ activeScalps' # activeScalps
    \/ lastSignalTime' # lastSignalTime

\* C28: if the order-book fetch fails inside analyze(), the call does not
\* throw and yields no signal: it emits no 'signal', creates no active
\* scalp and does not stamp the cooldown.
C28_FetchFailureYieldsNoSignal ==
    \A c \in Pending :
       analyzing[c] > 0 =>
          \A fresh \in BOOLEAN, nPrices \in PriceCounts :
             Fetched(c.symbol, fresh, FetchFails) = FetchFails =>
                /\ \A ind \in Indicators, flow \in Flows :
                      ~ENABLED (/\ AnalyzeFinish(c, fresh, FetchFails,
                                                 nPrices, ind, flow)
                                /\ Signals)
                /\ ~ENABLED AnalyzeThrows(c, fresh, FetchFails, nPrices)

(***************************************************************************)
(* Claims about the OrderBookAnalyzer (checked under SpecDepth)            *)
(***************************************************************************)
\* C29: for all non-negative bid and ask depths the imbalance of an
\* analysis is a well-defined ratio (its divisor is positive) within
\* [-1, 1], and it is exactly 0 when both depths are 0.
C29_ImbalanceBounded ==
    lastAnalysis # NoAnalysis =>
       LET a == lastAnalysis.analysis
       IN /\ a.bidDepth >= 0 /\ a.askDepth >= 0
          /\ a.imbalance.den > 0
          /\ -a.imbalance.den <= a.imbalance.num
          /\ a.imbalance.num <= a.imbalance.den
          /\ (a.bidDepth = 0 /\ a.askDepth = 0 => a.imbalance.num = 0)
          /\ (a.bidDepth + a.askDepth > 0 =>
                a.imbalance.num * (a.bidDepth + a.askDepth)
                   = (a.bidDepth - a.askDepth) * a.imbalance.den)

\* an analysis of an empty book: both depths are 0
C29_Witness ==
    /\ lastAnalysis # NoAnalysis
    /\ lastAnalysis.book = [bids |-> <<>>, asks |-> <<>>]
    /\ lastAnalysis.analysis.imbalance = [num |-> 0, den |-> 1]

WallRank(strength) ==
    CASE strength = "none" -> 0
      [] strength = "weak" -> 1
      [] strength = "medium" -> 2
      [] strength = "strong" -> 3
      [] strength = "massive" -> 4

\* the tier a band of a side got in walls: none when it is no wall
TierIn(walls, price) ==
    IF \E i \in DOMAIN walls : walls[i].price = price
    THEN (CHOOSE w \in Elements(walls) : w.price = price).strength
    ELSE "none"

MonotoneSide(orders, totalDepth, walls) ==
    LET groups == Elements(priceGroups(<<>>, orders))
    IN /\ \A g, h \in groups :
             g.volume <= h.volume =>
                WallRank(TierIn(walls, g.price)) <= WallRank(TierIn(walls, h.price))
       /\ \A v \in 1..totalDepth :
             WallRank(wallStrength(v - 1, totalDepth))
                <= WallRank(wallStrength(v, totalDepth))
       /\ \A g \in groups :
             TierIn(walls, g.price) = wallStrength(g.volume, totalDepth)

\* C30: for a fixed total depth the wall strength tier (none < weak <
\* medium < strong < massive) is monotonic non-decreasing in the volume of
\* the band: of two bands of one side the one with more volume never has
\* the lower tier, and no volume up to the depth gets a lower tier than
\* the volume one below it.
C30_WallTierMonotonic ==
    lastAnalysis # NoAnalysis =>
       LET a == lastAnalysis.analysis
       IN /\ MonotoneSide(lastAnalysis.book.bids, a.bidDepth, a.buyWalls)
          /\ MonotoneSide(lastAnalysis.book.asks, a.askDepth, a.sellWalls)

\* a bid side whose bands are weak, medium and massive, in that order of
\* volume
C30_Witness ==
    /\ lastAnalysis # NoAnalysis
    /\ lastAnalysis.book.bids = <<<<99900, 3>>, <<99800, 5>>, <<99000, MaxVolume>>>>
    /\ TierIn(lastAnalysis.analysis.buyWalls, 99900) = "weak"
    /\ TierIn(lastAnalysis.analysis.buyWalls, 99800) = "medium"
    /\ TierIn(lastAnalysis.analysis.buyWalls, 99000) = "massive"

(***************************************************************************)
(* Claims about the statistics and the archive of the Scalper              *)
(***************************************************************************)
RECURSIVE SumOfEntries(_, _)
\* the sum of f over the history entries at the positions in `at`
SumOfEntries(f(_), at) ==
    IF at = {} THEN 0
    ELSE LET i == CHOOSE j \in at : TRUE
         IN f(History[i]) + SumOfEntries(f, at \ {i})

HistoryWith(P(_)) == {i \in DOMAIN tradeHistory : P(History[i])}

\* C31: getStats() over the history reports wins = number of tp_hit plus
\* number of wall_exit with positive PnL, losses = number of sl_hit,
\* winRate = 100 * wins / totalTrades (0 for an empty history), and the
\* average PnL and the average duration as the means over all entries;
\* wins + losses never exceed totalTrades.
C31_StatsOverHistory ==
    LET st == getStats(History)
        n == Len(tradeHistory)
        tp == Cardinality(HistoryWith(LAMBDA t : t.status = "tp_hit"))
        we == Cardinality(HistoryWith(LAMBDA t : t.status = "wall_exit"
                                                  /\ t.profitPercent > 0))
        sl == Cardinality(HistoryWith(LAMBDA t : t.status = "sl_hit"))
    IN /\ st.totalTrades = n
       /\ st.wins = tp + we
       /\ st.losses = sl
       /\ st.wins + st.losses <= st.totalTrades
       /\ st.winRate.den > 0 /\ st.avgProfit.den > 0 /\ st.avgDuration.den > 0
       /\ IF n = 0
          THEN st.winRate.num = 0 /\ st.avgProfit.num = 0
               /\ st.avgDuration.num = 0
          ELSE /\ st.winRate.num * n = 100 * (tp + we) * st.winRate.den
               /\ st.avgProfit.num * n
                     = SumOfEntries(ProfitOf, DOMAIN tradeHistory)
                          * st.avgProfit.den
               /\ st.avgDuration.num * n
                     = SumOfEntries(DurationOf, DOMAIN tradeHistory)
                          * st.avgDuration.den

\* a history of a wall exit without profit and a take profit: one win of
\* two trades
C31_Witness ==
    /\ Len(tradeHistory) = 2
    /\ \E i \in DOMAIN tradeHistory :
          History[i].status = "wall_exit" /\ History[i].profitPercent <= 0
    /\ \E i \in DOMAIN tradeHistory : History[i].status = "tp_hit"
    /\ getStats(History).wins = 1
    /\ getStats(History).winRate = [num |-> 100, den |-> 2]

(***************************************************************************)
(* Further claims about the PositionTracker (checked under SpecTracker)    *)
(***************************************************************************)
\* C32: for every position, under every interleaving of streamed price
\* callbacks and sweeps, at most one exit order is placed on the exchange,
\* and at most one position:auto_closed is emitted for it (one is emitted
\* in the step each exit order is placed, and none in any other step).
C32_OneExitOrderPerPosition ==
    \A id \in DOMAIN positions :
       /\ exitOrders[id] <= 1
       /\ Count(tEmitted, TrackerEvent("position:auto_closed", id)) <= 1
       /\ exitOrders[id] = 0 =>
             Count(tEmitted, TrackerEvent("position:auto_closed", id)) = 0

(***************************************************************************)
(* Further claims about the Scalper (checked under SpecScalper, SpecExit)  *)
(***************************************************************************)
TerminalStatuses == {"tp_hit", "sl_hit", "wall_exit", "manual_exit"}

\* C33: every scalp a 'signal' was emitted for is either the active entry
\* of its symbol in the active-scalp map, or an entry of the history with a
\* terminal status: no active scalp is overwritten or dropped without
\* being archived.
C33_SignalledScalpsTracked ==
    \A id \in DOMAIN scalps :
       \/ /\ activeScalps[scalps[id].symbol] = id
          /\ scalps[id].status = "active"
       \/ /\ \E i \in DOMAIN tradeHistory : tradeHistory[i] = id
          /\ scalps[id].status \in TerminalStatuses

\* the symbol is within cooldownMs of its last signal
InCooldown(symbol) == now - lastSignalTime[symbol] < config.cooldownMs

\* C34: an analyze() call made within cooldownMs of the symbol's last
\* signal returns null at once, leaves the active-scalp map, the scalps,
\* the history and the cooldown stamps unchanged and emits no event; it
\* evaluates no exit for the active scalp of the symbol, whatever the price
\* and the order book.
C34_CooldownCallChangesNothing ==
    \A symbol \in ScalpSymbols :
       InCooldown(symbol) =>
          \A price \in ExitPrices, ob \in ExitOrderBooks :
             ~ENABLED (/\ AnalyzeStart(symbol, price, ob)
                       /\ \/ activeScalps' # activeScalps
                          \/ scalps' # scalps
                          \/ tradeHistory' # tradeHistory
                          \/ lastSignalTime' # lastSignalTime
                          \/ analyzing' # analyzing
                          \/ sEmitted' # <<>>)

\* within the cooldown an active scalp exists, a price crosses one of its
\* targets, and the last call emitted nothing
C34_Witness ==
    \E symbol \in ScalpSymbols :
       /\ InCooldown(symbol)
       /\ activeScalps[symbol] # 0
       /\ scalps[activeScalps[symbol]].status = "active"
       /\ \E price \in ExitPrices :
             ExitReason(scalps[activeScalps[symbol]], price, NoBook, config)
                \in {"tp_hit", "sl_hit"}
       /\ ENABLED AnalyzeStart(symbol, 100300, NoBook)
       /\ sEmitted = <<>>

(***************************************************************************)
(* Claims about the shared subscriptions (checked under SpecShared)        *)
(***************************************************************************)
\* C35: a symbol that another consumer (the scalp worker) subscribed on the
\* shared fetcher stays in the fetcher's subscription set, whatever the
\* tracker's reconciliation and stop() unsubscribe.
C35_ForeignSubscriptionKept ==
    \A symbol \in WorkerSymbols : symbol \in Elements(subscribedSymbols)

(***************************************************************************)
(* Further claims about the OrderBookAnalyzer (checked under SpecWalls)    *)
(***************************************************************************)
\* the levels at positions i, j, k of a side lie at three prices that span
\* less than 0.1% of the lowest of them
WithinOneStep(orders, i, j, k) ==
    LET ps == {orders[i][1], orders[j][1], orders[k][1]}
        lo == CHOOSE p \in ps : \A q \in ps : p <= q
        hi == CHOOSE p \in ps : \A q \in ps : p >= q
    IN Cardinality(ps) = 3 /\ 1000 * (hi - lo) < lo

AggregatedSide(orders, walls) ==
    (\E i, j, k \in DOMAIN orders : WithinOneStep(orders, i, j, k))
       => Len(walls) < Len(orders)

\* C36: levels of one side whose prices lie in the same 0.1%-wide band are
\* aggregated into one wall candidate.  Three levels that span less than
\* 0.1% meet at most one band boundary, so two of them share a band
\* wherever the bands are drawn: a side of three such levels gives fewer
\* than three walls.
C36_NearbyLevelsAggregated ==
    lastAnalysis # NoAnalysis =>
       /\ AggregatedSide(lastAnalysis.book.bids,
                         lastAnalysis.analysis.buyWalls)
       /\ AggregatedSide(lastAnalysis.book.asks,
                         lastAnalysis.analysis.sellWalls)

\* the signal of the same imbalance, whale flag and bid/ask ratio at a
\* spread of zero
AtZeroSpread(a) ==
    generateSignal(a.imbalance, [num |-> 0, den |-> 1], a.whaleActivity,
                   a.bidAskRatio)

\* C37: the net score is the contributions of imbalance, whale flag and
\* bid/ask ratio minus a penalty proportional to the spread.  With those
\* three inputs fixed, a book with a positive spread penalty gets a net
\* score of smaller magnitude than at zero spread: where the signal at zero
\* spread is up or down with a confidence below the cap of 0.9, the
\* analysis has a lower confidence (0.5 when the signal turns neutral).
C37_SpreadLowersNetScore ==
    lastAnalysis # NoAnalysis =>
       LET a == lastAnalysis.analysis
           zero == AtZeroSpread(a)
       IN (/\ spreadPenalty(a.spreadPercent) > 0
           /\ zero.signal # "neutral"
           /\ zero.confidence < 9000)
             => a.confidence < zero.confidence

(***************************************************************************)
(* Claims about the trade-flow momentum (checked under SpecMomentum)       *)
(***************************************************************************)
Rising(trades) ==
    \A i \in 1..(Len(trades) - 1) : trades[i].price < trades[i + 1].price

Falling(trades) ==
    \A i \in 1..(Len(trades) - 1) : trades[i].price > trades[i + 1].price

\* C38: the drift of the trade-flow momentum is measured from the older to
\* the newer trades of the window getTrades returns: on a window of at
\* least 20 trades whose prices strictly rise in arrival order it is
\* positive, on strictly falling prices it is negative, and falling prices
\* never give the 'Strong buy flow' long contribution.
C38_DriftOlderToNewer ==
    \A symbol \in ScalpSymbols :
       LET trades == getTrades(tradeBuffer[symbol], 30)
       IN Len(trades) >= 20 =>
             /\ Rising(trades) => priceMomentum(trades).num > 0
             /\ Falling(trades) =>
                   /\ priceMomentum(trades).num < 0
                   /\ analyzeRealtimeMomentum(trades).reason
                         # "Strong buy flow"

(***************************************************************************)
(* Claims about the candles (checked under SpecMomentum)                   *)
(***************************************************************************)
\* C39: every candle forwarded to the price repository is well formed:
\* low <= open <= high, low <= close <= high, and the trade the close was
\* taken from is one of the trades aggregated into open, high and low.
C39_CandleWellFormed ==
    \A symbol \in Symbols :
       \A i \in DOMAIN candles[symbol] :
          LET c == candles[symbol][i]
          IN /\ c.low <= c.open /\ c.open <= c.high
             /\ c.low <= c.close /\ c.close <= c.high
             /\ c.closing \in c.of

(***************************************************************************)
(* Further claims about the exits of the Scalper (checked under SpecExit)  *)
(***************************************************************************)
\* the scalp `id` has just been archived as a wall exit that the
\* configuration in force does not permit
WallExitNotPermitted(id) ==
    /\ scalps'[id].status = "wall_exit"
    /\ \/ ~config.enableWallExit
       \/ scalps'[id].profitPercent
             < config.minProfitForWallExit * scalps'[id].entryPrice
       \/ config.minProfitForWallExit > 0 /\ scalps'[id].profitPercent < 0

\* C40: a scalp is archived with status wall_exit only while enableWallExit
\* is set and with a realized PnL of at least the minProfitForWallExit in
\* force at the exit, so with a positive minProfitForWallExit never at a
\* loss: no call of checkScalpExit can archive a wall exit that the
\* configuration does not permit, and the scalp an 'exit' was just emitted
\* for with status wall_exit satisfies the configuration of that call.
C40_WallExitGated ==
    /\ \A symbol \in ScalpSymbols, p \in ExitPrices, ob \in ExitOrderBooks :
          LET id == ActiveId(symbol) IN
          id # 0 => ~ENABLED (/\ CheckScalpExit(symbol, p, ob)
                              /\ WallExitNotPermitted(id))
    /\ \A id \in DOMAIN scalps :
          (/\ scalps[id].status = "wall_exit"
           /\ sEmitted = <<ScalpEvent("exit", id)>>)
             => /\ config.enableWallExit
                /\ scalps[id].profitPercent
                      >= config.minProfitForWallExit * scalps[id].entryPrice
                /\ config.minProfitForWallExit > 0
                      => scalps[id].profitPercent >= 0

\* C40 witness: with minProfitForWallExit lowered below zero a scalp was
\* archived as a wall exit at a loss within that limit.
C40_Witness ==
    /\ Len(scalps) = 1
    /\ scalps[1].status = "wall_exit"
    /\ tradeHistory = <<1>>
    /\ sEmitted = <<ScalpEvent("exit", 1)>>
    /\ config.enableWallExit
    /\ config.minProfitForWallExit = -20
    /\ scalps[1].profitPercent < 0
    /\ scalps[1].profitPercent >= -20 * scalps[1].entryPrice

====
